---------------------------- MODULE Spec2Model ----------------------------
(***************************************************************************)
(* A model of the construct crate: the geometric transform kernel          *)
(* (Vector, Matrix, Face, Geometry) and the Selection / Alteration /       *)
(* AttributeItem machinery built on it.                                    *)
(*                                                                         *)
(* Conventions                                                             *)
(*  - Rust vectors are 0-based, TLA+ sequences 1-based: v[i] of the code   *)
(*    is v[i + 1] here.                                                    *)
(*  - f64 values are modelled by integers (values on which the f64         *)
(*    arithmetic used here is exact); an angle is measured in quarter      *)
(*    turns, where sine and cosine are integers.                           *)
(*  - usize is modelled by 0..UsizeMax.                                    *)
(*  - A panic is an outcome of its own: [panic |-> TRUE, ...].             *)
(***************************************************************************)
EXTENDS Integers, Sequences, FiniteSets, TLC

VARIABLES
    \* Selection called directly on a list (SelSpec)
    sel,        \* the Selection
    src,        \* the source list handed to give
    dest,       \* the list take reads and give writes
    dest0,      \* dest before the first call
    taken,      \* what take returned
    outcome,    \* "none", "ok" or "panic": how the last call ended
    selpc,      \* "start", "took", "gave", "returned"
    \* Geometry and one AttributeItem over its vertex list (Spec)
    vertices,   \* Geometry.vertices
    faces,      \* Geometry.faces
    item,       \* the AttributeItem: selection and alteration
    pc,         \* "raw", "valid", "invalid": the geometry's validation
    last,       \* the last operation: "none", "validated", "update_magnitude",
                \* "update_dimension", "apply", "apply_panic", "transform",
                \* "update", "revise", "revise_panic"
    prev,       \* the geometry before the last operation
    applies,    \* the number of apply, revise or transform calls so far
    \* Face construction and printing (FaceSpec)
    input,      \* the 1-based triple given to Face::new
    face,       \* the Face built from it
    text,       \* the String made from the face
    fpc,        \* "start", "built", "printed"
    \* An Attribute over the vertex list of a Geometry (AttrSpec, BoxSpec)
    attribute,  \* the Attribute: name and items
    prevAttr,   \* the attribute before the last operation
    arg,        \* the argument of the last operation
    base,       \* the vertex list when the attribute was last re-parametrized
    streak,     \* the revise calls since then
    \* An Alteration built and applied to a list of points (AltSpec)
    alt,        \* the Alteration under construction
    built,      \* what build() returned
    pts,     \* the list handed to apply
    pts0,    \* the list before apply
    altpc,      \* "new", "built", "applied"
    \* Matrix products (RotSpec, MulSpec)
    angles,     \* the angles (x, y, z) given to rotate, in quarter turns
    point,      \* a vertex
    rot,        \* rotate(x, y, z)
    moved,      \* the vertex transformed by rot
    ma, mb, mc, \* three matrices
    left,       \* (ma * mb) * mc
    right,      \* ma * (mb * mc)
    mpc,        \* "start", "rotated", "moved"; "left", "right", "both";
                \* "combined", "chained", "done"
    \* Vector.normalize and Triangle.normal (VecSpec)
    vec,        \* the vector
    unit,       \* vec.normalize()
    tri,        \* the triangle
    normal,     \* tri.normal()
    flipped,    \* the normal of tri with its second and third point exchanged
    vpc,        \* the calls already made
    \* A vertex taken through matrices one after the other (AffSpec)
    combined,   \* the vertex transformed by the product (ma * mb) * mc
    chained,    \* the vertex transformed by mc, then mb, then ma
    chainedRev, \* the vertex transformed by ma, then mb, then mc
    \* A Triangle taken from a Geometry (TriSpec)
    trig,       \* the Triangle
    trig0,      \* the Triangle as Geometry.get returned it
    got,        \* the index given to Geometry.get
    asface,     \* trig.as_face()
    tpc,        \* "start", "got", and the calls made after
    \* Geometry to text and text to Geometry (DocSpec)
    doc,        \* the text
    parsed,     \* what Geometry::try_from(doc) returned
    dpc         \* "start", "printed", "parsed"

selVars  == <<sel, src, dest, dest0, taken, outcome, selpc>>
geoVars  == <<vertices, faces, item, pc, last, prev, applies>>
faceVars == <<input, face, text, fpc>>
attrVars == <<attribute, prevAttr, arg, base, streak>>
altVars  == <<alt, built, pts, pts0, altpc>>
matVars  == <<angles, point, rot, moved, ma, mb, mc, left, right, mpc>>
vecVars  == <<vec, unit, tri, normal, flipped, vpc>>
chainVars == <<combined, chained, chainedRev>>
triVars  == <<trig, trig0, got, asface, tpc>>
docVars  == <<doc, parsed, dpc>>
extraVars == <<chainVars, triVars, docVars>>
laterVars == <<altVars, matVars, vecVars, extraVars>>
restVars == <<attrVars, laterVars>>
vars     == <<selVars, geoVars, faceVars, restVars>>

-----------------------------------------------------------------------------
(* Bounds *)

MaxLen     == 3   \* longest list handed to a Selection
MaxSel     == 2   \* longest index list of a Specific selection
NumVerts   == 2   \* vertex count of the geometry an AttributeItem works on
MaxApplies == 2   \* apply calls in one behaviour
MaxFaces   == 2   \* longest face list
UsizeMax   == 10  \* stands for usize::MAX
MaxItems   == 2   \* most items of an Attribute
MaxAngle   == 3   \* largest angle given to rotate, in quarter turns
MaxCoord   == 2   \* largest coordinate of a vector handed to normalize

Min(a, b) == IF a < b THEN a ELSE b

-----------------------------------------------------------------------------
(* Vector *)

Vector_new(x, y, z) == [x |-> x, y |-> y, z |-> z]


\* impl Sub for Vector
Vector_sub(a, b) == [x |-> a.x - b.x, y |-> a.y - b.y, z |-> a.z - b.z]

\* Vector * f64: every component times the scalar
Vector_mul_f64(v, k) == [x |-> v.x * k, y |-> v.y * k, z |-> v.z * k]

\* f64::sqrt, exact on the perfect squares the inputs give
Sqrt(n) == CHOOSE r \in 0..n : r * r <= n /\ (r + 1) * (r + 1) > n

\* what a division by 0.0 gives, NaN or an infinity: no finite number, and
\* none of the numbers the model computes with
NotFinite == 1000000

\* f64 division a / b for b >= 0, exact where b divides a
FDiv(a, b) == IF b = 0 THEN NotFinite ELSE a \div b

Vector_magnitude(v) ==
    LET v1 == v.x * v.x
        v2 == v.y * v.y
        v3 == v.z * v.z
    IN  Sqrt(v1 + v2 + v3)

\* a normalize that divides whatever the magnitude is
Vector_normalize_unguarded(v) ==
    LET m == Vector_magnitude(v)
    IN  [x |-> FDiv(v.x, m), y |-> FDiv(v.y, m), z |-> FDiv(v.z, m)]

\* normalize: the components divided by the magnitude when it is > 0.0
Vector_normalize(v) ==
    LET m == Vector_magnitude(v)
    IN  IF m > 0
        THEN [x |-> FDiv(v.x, m), y |-> FDiv(v.y, m), z |-> FDiv(v.z, m)]
        ELSE v

\* a normal from the cross product taken the other way round, b x a
Triangle_normal_b_cross_a(t) ==
    LET a == Vector_sub(t.p2, t.p1)
        b == Vector_sub(t.p3, t.p1)
        x == b.y * a.z - b.z * a.y
        y == b.z * a.x - b.x * a.z
        z == b.x * a.y - b.y * a.x
    IN  Vector_normalize(Vector_new(x, y, z))

\* Triangle::normal: the cross product of p2 - p1 and p3 - p1, normalized
Triangle_normal(t) ==
    LET a == Vector_sub(t.p2, t.p1)
        b == Vector_sub(t.p3, t.p1)
        x == a.y * b.z - a.z * b.y
        y == a.z * b.x - a.x * b.z
        z == a.x * b.y - a.y * b.x
    IN  Vector_normalize(Vector_new(x, y, z))

-----------------------------------------------------------------------------
(* Matrix: 16 numbers, row-major; m[4 * (row - 1) + col] *)

Matrix_new(v) == [i \in 1..16 |-> v[i]]

Matrix_scale(x, y, z) ==
    Matrix_new(<< x, 0, 0, 0,
                  0, y, 0, 0,
                  0, 0, z, 0,
                  0, 0, 0, 1 >>)

\* a translate that puts the offsets in the bottom row
Matrix_translate_bottom(x, y, z) ==
    Matrix_new(<< 1, 0, 0, 0,
                  0, 1, 0, 0,
                  0, 0, 1, 0,
                  x, y, z, 1 >>)

Matrix_translate(x, y, z) ==
    Matrix_new(<< 1, 0, 0, x,
                  0, 1, 0, y,
                  0, 0, 1, z,
                  0, 0, 0, 1 >>)

\* f64::cos and f64::sin of an angle of q quarter turns
Cos(q) == CASE q % 4 = 0 -> 1  [] q % 4 = 1 -> 0 [] q % 4 = 2 -> -1 [] OTHER -> 0
Sin(q) == CASE q % 4 = 0 -> 0  [] q % 4 = 1 -> 1 [] q % 4 = 2 -> 0  [] OTHER -> -1

Matrix_rotate_x(x) ==
    Matrix_new(<< 1, 0,      0,       0,
                  0, Cos(x), -Sin(x), 0,
                  0, Sin(x), Cos(x),  0,
                  0, 0,      0,       1 >>)

Matrix_rotate_y(y) ==
    Matrix_new(<< Cos(y),  0, Sin(y), 0,
                  0,       1, 0,      0,
                  -Sin(y), 0, Cos(y), 0,
                  0,       0, 0,      1 >>)

Matrix_rotate_z(z) ==
    Matrix_new(<< Cos(z), -Sin(z), 0, 0,
                  Sin(z), Cos(z),  0, 0,
                  0,      0,       1, 0,
                  0,      0,       0, 1 >>)

\* the product of a by b with the operands taken the other way round
Matrix_mul_reversed(a, b) ==
    [i \in 1..16 |->
        LET r == (i - 1) \div 4
            c == ((i - 1) % 4) + 1
        IN  b[4 * r + 1] * a[c]     + b[4 * r + 2] * a[4 + c] +
            b[4 * r + 3] * a[8 + c] + b[4 * r + 4] * a[12 + c]]

\* impl Mul for Matrix: row r of a by column c of b
Matrix_mul(a, b) ==
    [i \in 1..16 |->
        LET r == (i - 1) \div 4
            c == ((i - 1) % 4) + 1
        IN  a[4 * r + 1] * b[c]     + a[4 * r + 2] * b[4 + c] +
            a[4 * r + 3] * b[8 + c] + a[4 * r + 4] * b[12 + c]]

\* a rotate that multiplies z first: rotate_z(z) * rotate_y(y) * rotate_x(x)
Matrix_rotate_zyx(x, y, z) ==
    [i \in 1..16 |->
        LET zy == [j \in 1..16 |->
                      LET r == (j - 1) \div 4
                          c == ((j - 1) % 4) + 1
                      IN  Matrix_rotate_z(z)[4 * r + 1] * Matrix_rotate_y(y)[c] +
                          Matrix_rotate_z(z)[4 * r + 2] * Matrix_rotate_y(y)[4 + c] +
                          Matrix_rotate_z(z)[4 * r + 3] * Matrix_rotate_y(y)[8 + c] +
                          Matrix_rotate_z(z)[4 * r + 4] * Matrix_rotate_y(y)[12 + c]]
            r  == (i - 1) \div 4
            c  == ((i - 1) % 4) + 1
        IN  zy[4 * r + 1] * Matrix_rotate_x(x)[c] +
            zy[4 * r + 2] * Matrix_rotate_x(x)[4 + c] +
            zy[4 * r + 3] * Matrix_rotate_x(x)[8 + c] +
            zy[4 * r + 4] * Matrix_rotate_x(x)[12 + c]]

Matrix_rotate(x, y, z) ==
    Matrix_mul(Matrix_mul(Matrix_rotate_x(x), Matrix_rotate_y(y)), Matrix_rotate_z(z))

\* a matching that takes Scale for Translate and Translate for Scale
Matrix_matching_swapped(v, x, y, z) ==
    CASE v = "Scale"     -> Matrix_translate(x, y, z)
      [] v = "Rotate"    -> Matrix_rotate(x, y, z)
      [] v = "Translate" -> Matrix_scale(x, y, z)

Matrix_matching(v, x, y, z) ==
    CASE v = "Scale"     -> Matrix_scale(x, y, z)
      [] v = "Rotate"    -> Matrix_rotate(x, y, z)
      [] v = "Translate" -> Matrix_translate(x, y, z)

\* impl Transform for Vector: the homogeneous point (x, y, z, 1) times the
\* matrix, then the perspective divide by dw
Vector_transform(v, m) ==
    LET w  == 1
        dw == m[13] * v.x + m[14] * v.y + m[15] * v.z + m[16] * w
        dx == m[1]  * v.x + m[2]  * v.y + m[3]  * v.z + m[4]  * w
        dy == m[5]  * v.x + m[6]  * v.y + m[7]  * v.z + m[8]  * w
        dz == m[9]  * v.x + m[10] * v.y + m[11] * v.z + m[12] * w
    IN  [x |-> dx \div dw, y |-> dy \div dw, z |-> dz \div dw]

-----------------------------------------------------------------------------
(* Selection *)

Selection_specific(indices) == [kind |-> "Specific", indices |-> indices]
Selection_range(start, end) == [kind |-> "Range", start |-> start, end |-> end]
Selection_all               == [kind |-> "All"]

Ok(list)     == [panic |-> FALSE, list |-> list]
Panic(list)  == [panic |-> TRUE,  list |-> list]

\* a give_specific that matches by index value: dest[i] = src[i]
RECURSIVE give_specific_by_value(_, _, _, _)
give_specific_by_value(n, indices, source, dst) ==
    IF n = 0 THEN Ok(dst)
    ELSE LET before == give_specific_by_value(n - 1, indices, source, dst)
         IN  IF before.panic THEN before
             ELSE IF indices[n] >= Len(before.list) \/ indices[n] >= Len(source)
                  THEN Panic(before.list)
             ELSE Ok([before.list EXCEPT ![indices[n] + 1] = source[indices[n] + 1]])

\* give_specific after the first n turns of its loop over zip(indices, src):
\* dest[i] = v.clone() panics when i is out of bounds, and the writes made
\* before it stay.
RECURSIVE give_specific_iter(_, _, _, _)
give_specific_iter(n, indices, source, dst) ==
    IF n = 0 THEN Ok(dst)
    ELSE LET before == give_specific_iter(n - 1, indices, source, dst)
         IN  IF before.panic THEN before
             ELSE IF indices[n] >= Len(before.list) THEN Panic(before.list)
             ELSE Ok([before.list EXCEPT ![indices[n] + 1] = source[n]])

\* zip stops at the shorter of indices and src
give_specific(indices, source, dst) ==
    give_specific_iter(Min(Len(indices), Len(source)), indices, source, dst)

\* a give_range that inserts src at start and removes nothing
give_range_inserts(start, end, source, dst) ==
    IF start > end \/ end > Len(dst) THEN Panic(dst)
    ELSE Ok(SubSeq(dst, 1, start) \o source \o SubSeq(dst, start + 1, Len(dst)))

\* dest.splice(start..end, src): the range is checked first (start <= end,
\* end <= len, else a panic), then the slice is replaced by all of src
give_range(start, end, source, dst) ==
    IF start > end \/ end > Len(dst) THEN Panic(dst)
    ELSE Ok(SubSeq(dst, 1, start) \o source \o SubSeq(dst, end + 1, Len(dst)))

\* a give_all that extends dest by src
give_all_extends(source, dst) == Ok(dst \o source)

\* dest.splice(.., src)
give_all(source, dst) == Ok(source)

\* a take_specific that filters data by index: data order, no repeats
take_specific_by_filter(indices, data) ==
    IF \E k \in 1..Len(indices) : indices[k] >= Len(data) THEN Panic(<<>>)
    ELSE LET keep == {indices[k] + 1 : k \in 1..Len(indices)}
             F[n \in 0..Len(data)] ==
                 IF n = 0 THEN <<>>
                 ELSE IF n \in keep THEN Append(F[n - 1], data[n]) ELSE F[n - 1]
         IN  Ok(F[Len(data)])

take_specific(indices, data) ==
    IF \E k \in 1..Len(indices) : indices[k] >= Len(data) THEN Panic(<<>>)
    ELSE Ok([k \in 1..Len(indices) |-> data[indices[k] + 1]])

\* a take_range with an inclusive end: data[start..=end]
take_range_inclusive(start, end, data) ==
    IF start > end + 1 \/ end + 1 > Len(data) THEN Panic(<<>>)
    ELSE Ok(SubSeq(data, start + 1, end + 1))

\* data[start..end]
take_range(start, end, data) ==
    IF start > end \/ end > Len(data) THEN Panic(<<>>)
    ELSE Ok(SubSeq(data, start + 1, end))

take_all(data) == Ok(data)

Selection_give(s, source, dst) ==
    CASE s.kind = "Specific" -> give_specific(s.indices, source, dst)
      [] s.kind = "Range"    -> give_range(s.start, s.end, source, dst)
      [] s.kind = "All"      -> give_all(source, dst)

Selection_take(s, data) ==
    CASE s.kind = "Specific" -> take_specific(s.indices, data)
      [] s.kind = "Range"    -> take_range(s.start, s.end, data)
      [] s.kind = "All"      -> take_all(data)

-----------------------------------------------------------------------------
(* Face *)

\* usize::wrapping_sub(1): 0 - 1 wraps round to usize::MAX
wrapping_sub_1(a) == IF a = 0 THEN UsizeMax ELSE a - 1

\* usize::saturating_sub(1) and usize::saturating_add(1)
saturating_sub_1(a) == IF a = 0 THEN 0 ELSE a - 1
saturating_add_1(a) == IF a >= UsizeMax THEN UsizeMax ELSE a + 1

\* a Face::new that stores its inputs as they are
Face_new_unshifted(a, b, c) == [a |-> a, b |-> b, c |-> c]

\* Face::new and Face::make: the inputs are 1-based
Face_new(a, b, c) ==
    [a |-> saturating_sub_1(a), b |-> saturating_sub_1(b), c |-> saturating_sub_1(c)]

\* an is_valid that forgets the third index
Face_is_valid_ab(f, data) ==
    LET l == Len(data) IN f.a < l /\ f.b < l

Face_is_valid(f, data) ==
    LET l == Len(data) IN f.a < l /\ f.b < l /\ f.c < l

\* the tag of a face line
FACE_TAG == "f"

Digit(d) ==
    CASE d = 0 -> "0" [] d = 1 -> "1" [] d = 2 -> "2" [] d = 3 -> "3" [] d = 4 -> "4"
      [] d = 5 -> "5" [] d = 6 -> "6" [] d = 7 -> "7" [] d = 8 -> "8" [] d = 9 -> "9"

\* "{}" of a usize: its decimal digits, most significant first
RECURSIVE Display_usize(_)
Display_usize(n) ==
    IF n < 10 THEN <<Digit(n)>>
    ELSE Append(Display_usize(n \div 10), Digit(n % 10))

\* a face text that prints the stored 0-based indices
String_from_Face_zero_based(v) ==
    <<FACE_TAG>> \o <<" ">> \o Display_usize(v.a) \o <<" ">> \o Display_usize(v.b)
        \o <<" ">> \o Display_usize(v.c)

\* impl From<Face> for String: format!("{} {} {} {}", FACE_TAG, a, b, c),
\* a string being the sequence of its characters
String_from_Face(v) ==
    LET a == saturating_add_1(v.a)
        b == saturating_add_1(v.b)
        c == saturating_add_1(v.c)
    IN  <<FACE_TAG>> \o <<" ">> \o Display_usize(a) \o <<" ">> \o Display_usize(b)
            \o <<" ">> \o Display_usize(c)

-----------------------------------------------------------------------------
(* Geometry *)

Geometry_new(vs, fs) == [vertices |-> vs, faces |-> fs]

\* validated from the k-th face on: the first face that is not valid ends
\* the loop with Err(Error::ParseError)
RECURSIVE validated_from(_, _)
validated_from(k, g) ==
    IF k > Len(g.faces) THEN [ok |-> TRUE, geometry |-> g]
    ELSE IF ~Face_is_valid(g.faces[k], g.vertices)
         THEN [ok |-> FALSE, error |-> "ParseError"]
    ELSE validated_from(k + 1, g)

Geometry_validated(g) == validated_from(1, g)

\* impl Transform for Vec<Vertex>: every element of the list, once
Vec_transform(vs, matrix) ==
    [k \in 1..Len(vs) |-> Vector_transform(vs[k], matrix)]

\* the vertex at index i transformed in place, when there is one
transform_at(vs, i, matrix) ==
    IF i < Len(vs)
    THEN [vs EXCEPT ![i + 1] = Vector_transform(vs[i + 1], matrix)]
    ELSE vs

\* a transform that walks the faces k.. and transforms the vertices each
\* face refers to
RECURSIVE transform_faces_from(_, _, _, _)
transform_faces_from(k, fs, vs, matrix) ==
    IF k > Len(fs) THEN vs
    ELSE transform_faces_from(k + 1, fs,
             transform_at(transform_at(transform_at(vs, fs[k].a, matrix),
                                       fs[k].b, matrix),
                          fs[k].c, matrix),
             matrix)

Geometry_transform_by_face(g, matrix) ==
    [g EXCEPT !.vertices = transform_faces_from(1, g.faces, g.vertices, matrix)]

\* impl Transform for Geometry: self.vertices.transform(matrix)
Geometry_transform(g, matrix) ==
    [g EXCEPT !.vertices = Vec_transform(g.vertices, matrix)]

-----------------------------------------------------------------------------
(* Alteration *)

\* Vector::default()
Vector_default == Vector_new(0, 0, 0)

Alteration_new(operation) ==
    [magnitude |-> 0, dimension |-> Vector_default, operation |-> operation]

Alteration_with_magnitude(a, value) == [a EXCEPT !.magnitude = value]
Alteration_with_dimension(a, value) == [a EXCEPT !.dimension = value]

\* build(): self as it is, nothing verified
Alteration_build(a) == a

\* an update that adds the value to the magnitude
Alteration_update_adds(a, value) == [a EXCEPT !.magnitude = a.magnitude + value]

\* Alteration::update, which AttributeItem::update_magnitude reaches
Alteration_update(a, value) == [a EXCEPT !.magnitude = value]

\* what AttributeItem::update_dimension reaches
Alteration_update_dimension(a, value) == [a EXCEPT !.dimension = value]

\* a matrix built from the dimension alone, the magnitude forgotten
Alteration_matrix_unscaled(a) ==
    Matrix_matching(a.operation, a.dimension.x, a.dimension.y, a.dimension.z)

\* the matrix apply builds: dimension * magnitude, by the operation
Alteration_matrix(a) ==
    LET vector == Vector_mul_f64(a.dimension, a.magnitude)
    IN  Matrix_matching(a.operation, vector.x, vector.y, vector.z)

\* every vertex of the list is transformed by that matrix
Alteration_apply(a, vs) ==
    LET matrix == Alteration_matrix(a)
    IN  [k \in 1..Len(vs) |-> Vector_transform(vs[k], matrix)]

-----------------------------------------------------------------------------
(* AttributeItem *)

AttributeItem_new(selection, alteration) ==
    [selection |-> selection, alteration |-> alteration]

AttributeItem_update_magnitude(it, magnitude) ==
    [it EXCEPT !.alteration = Alteration_update(it.alteration, magnitude)]

AttributeItem_update_dimension(it, dimension) ==
    [it EXCEPT !.alteration = Alteration_update_dimension(it.alteration, dimension)]

\* an apply that transforms the whole list and gives the selection back
AttributeItem_apply_all(it, vs) ==
    LET all  == Alteration_apply(it.alteration, vs)
        tk   == Selection_take(it.selection, all)
    IN  IF tk.panic THEN Panic(vs)
        ELSE LET gv == Selection_give(it.selection, tk.list, all)
             IN  gv

\* the vertices at the listed indices k.., transformed where they stand,
\* one occurrence after the other
RECURSIVE transform_listed_from(_, _, _, _)
transform_listed_from(k, indices, vs, matrix) ==
    IF k > Len(indices) THEN vs
    ELSE transform_listed_from(k + 1, indices,
                               transform_at(vs, indices[k], matrix), matrix)

\* an apply that transforms a Specific selection in place, index by index,
\* with no copy taken
AttributeItem_apply_in_place(it, vs) ==
    LET tk == Selection_take(it.selection, vs)
    IN  IF tk.panic THEN Panic(vs)
        ELSE IF it.selection.kind = "Specific"
        THEN Ok(transform_listed_from(1, it.selection.indices, vs,
                                      Alteration_matrix(it.alteration)))
        ELSE Selection_give(it.selection,
                            Alteration_apply(it.alteration, tk.list), vs)

\* take the selection, transform it, give it back; a panic in take leaves
\* the vertex list as it was
AttributeItem_apply(it, vs) ==
    LET tk == Selection_take(it.selection, vs)
    IN  IF tk.panic THEN Panic(vs)
        ELSE LET points == Alteration_apply(it.alteration, tk.list)
             IN  Selection_give(it.selection, points, vs)

-----------------------------------------------------------------------------
(* Attribute: a name and an ordered list of items *)

Attribute_new(name, items) == [name |-> name, items |-> items]

\* update(magnitude): one magnitude for every item's alteration
Attribute_update(attr, magnitude) ==
    [attr EXCEPT !.items =
        [k \in 1..Len(attr.items) |->
            AttributeItem_update_magnitude(attr.items[k], magnitude)]]

\* revise from the k-th item on: each item is applied to the vertex list the
\* items before it left; an item that panics ends the call
RECURSIVE revise_from(_, _, _)
revise_from(k, items, vs) ==
    IF k > Len(items) THEN Ok(vs)
    ELSE LET r == AttributeItem_apply(items[k], vs)
         IN  IF r.panic THEN r ELSE revise_from(k + 1, items, r.list)

\* revise(geometry), on geometry.vertices_mut()
Attribute_revise(attr, vs) == revise_from(1, attr.items, vs)

\* the sum of the vertices at the 1-based positions ps[k..]
RECURSIVE sum_from(_, _, _)
sum_from(k, ps, vs) ==
    IF k > Len(ps) THEN Vector_new(0, 0, 0)
    ELSE LET rest == sum_from(k + 1, ps, vs)
             v    == vs[ps[k]]
         IN  Vector_new(v.x + rest.x, v.y + rest.y, v.z + rest.z)

\* centroid(selection, vertices): the arithmetic mean of the selected
\* vertices, for a Specific selection that is not empty and whose mean has
\* integer coordinates
centroid(selection, vs) ==
    LET ps  == [k \in 1..Len(selection.indices) |-> selection.indices[k] + 1]
        sum == sum_from(1, ps, vs)
        n   == Len(ps)
    IN  Vector_new(sum.x \div n, sum.y \div n, sum.z \div n)

\* the square of distance(geometry, i, j): distance is the Euclidean distance
\* between the centroids of the selections of items i and j
Attribute_distance_squared(attr, vs, i, j) ==
    LET d == Vector_sub(centroid(attr.items[i + 1].selection, vs),
                        centroid(attr.items[j + 1].selection, vs))
    IN  d.x * d.x + d.y * d.y + d.z * d.z

-----------------------------------------------------------------------------
(* Inputs *)

SeqsUpTo(S, n) == UNION {[1..k -> S] : k \in 0..n}

\* the values a list handed to a Selection holds
Elems == {Vector_new(0, 0, 0), Vector_new(1, 2, 3)}

Lists == SeqsUpTo(Elems, MaxLen)

\* the selections over lists of at most n elements; index n, and a range
\* ending at n + 1, are out of bounds for every such list
Selections(n) ==
    {Selection_specific(ix) : ix \in SeqsUpTo(0..n, MaxSel)}
        \cup {Selection_range(a, b) : a, b \in 0..(n + 1)}
        \cup {Selection_all}

\* every index the selection names exists in the list
InBounds(s, list) ==
    CASE s.kind = "Specific" -> \A k \in 1..Len(s.indices) : s.indices[k] < Len(list)
      [] s.kind = "Range"    -> s.start <= s.end /\ s.end <= Len(list)
      [] s.kind = "All"      -> TRUE

\* the 1-based positions of the list the selection names
Selected(s, list) ==
    CASE s.kind = "Specific" -> {s.indices[k] + 1 : k \in 1..Len(s.indices)}
      [] s.kind = "Range"    -> (s.start + 1)..s.end
      [] s.kind = "All"      -> 1..Len(list)

-----------------------------------------------------------------------------
(* SelSpec: Selection.take and Selection.give called on a list *)

SelIdle ==
    /\ sel = Selection_all /\ src = <<>> /\ dest = <<>> /\ dest0 = <<>>
    /\ taken = <<>> /\ outcome = "none" /\ selpc = "idle"

GeoIdle ==
    /\ vertices = <<>> /\ faces = <<>> /\ item = "none" /\ pc = "idle"
    /\ last = "none" /\ prev = Geometry_new(<<>>, <<>>) /\ applies = 0

FaceIdle ==
    /\ input = <<>> /\ face = "none" /\ text = <<>> /\ fpc = "idle"

AttrIdle ==
    /\ attribute = "none" /\ prevAttr = "none" /\ arg = "none"
    /\ base = <<>> /\ streak = 0

AltIdle ==
    /\ alt = "none" /\ built = "none" /\ pts = <<>> /\ pts0 = <<>>
    /\ altpc = "idle"

MatIdle ==
    /\ angles = <<0, 0, 0>> /\ point = Vector_default
    /\ rot = "none" /\ moved = "none"
    /\ ma = "none" /\ mb = "none" /\ mc = "none"
    /\ left = "none" /\ right = "none" /\ mpc = "idle"

VecIdle ==
    /\ vec = Vector_default /\ unit = "none" /\ tri = "none"
    /\ normal = "none" /\ flipped = "none" /\ vpc = {}

ChainIdle == combined = "none" /\ chained = "none" /\ chainedRev = "none"

TriIdle ==
    /\ trig = "none" /\ trig0 = "none" /\ got = 0 /\ asface = "none"
    /\ tpc = "idle"

DocIdle == doc = <<>> /\ parsed = "none" /\ dpc = "idle"

ExtraIdle == ChainIdle /\ TriIdle /\ DocIdle

LaterIdle == AltIdle /\ MatIdle /\ VecIdle /\ ExtraIdle

RestIdle == AttrIdle /\ LaterIdle

SelInit ==
    /\ sel \in Selections(MaxLen)
    /\ src \in Lists
    /\ dest \in Lists
    /\ dest0 = dest
    /\ taken = <<>>
    /\ outcome = "none"
    /\ selpc = "start"
    /\ GeoIdle /\ FaceIdle /\ RestIdle

Ended(r) == IF r.panic THEN "panic" ELSE "ok"

\* let taken = sel.take(&dest)
Take ==
    /\ selpc = "start"
    /\ LET r == Selection_take(sel, dest)
       IN  /\ taken' = r.list
           /\ outcome' = Ended(r)
    /\ selpc' = "took"
    /\ UNCHANGED <<sel, src, dest, dest0, geoVars, faceVars, restVars>>

\* sel.give(&src, &mut dest)
Give ==
    /\ selpc = "start"
    /\ LET r == Selection_give(sel, src, dest)
       IN  /\ dest' = r.list
           /\ outcome' = Ended(r)
    /\ selpc' = "gave"
    /\ UNCHANGED <<sel, src, dest0, taken, geoVars, faceVars, restVars>>

\* sel.give(&taken, &mut dest), after a take that returned
GiveBack ==
    /\ selpc = "took" /\ outcome = "ok"
    /\ LET r == Selection_give(sel, taken, dest)
       IN  /\ dest' = r.list
           /\ outcome' = Ended(r)
    /\ selpc' = "returned"
    /\ UNCHANGED <<sel, src, dest0, taken, geoVars, faceVars, restVars>>

SelNext == Take \/ Give \/ GiveBack

SelSpec == SelInit /\ [][SelNext]_vars

-----------------------------------------------------------------------------
(* Claims about Selection (SelSpec) *)

\* C1: for an in-bounds selection, take returns, and giving the taken values
\* back unmodified leaves the list exactly as it was: same length, same
\* element at every position.
TakeGiveRestores ==
    /\ (selpc = "took" /\ InBounds(sel, dest0)) => outcome = "ok"
    /\ (selpc = "returned" /\ InBounds(sel, dest0)) =>
           /\ outcome = "ok"
           /\ Len(dest) = Len(dest0)
           /\ \A p \in 1..Len(dest0) : dest[p] = dest0[p]

TakeGiveRestoresWitness ==
    /\ selpc = "returned"
    /\ sel = Selection_range(1, 2)
    /\ Len(dest0) = 3
    /\ dest0[2] # dest0[3]

\* C4: for Specific(indices) with |source| = |indices| and every index in
\* bounds, give writes source[k] into dest[indices[k]] at its k-th turn, for
\* every position k, and changes nothing else at that turn; so at the end
\* dest[indices[k]] holds source[k] for every k whose index is not listed
\* again later, and every position not listed is as before.
GiveSpecificWrites ==
    (/\ selpc = "gave"
     /\ sel.kind = "Specific"
     /\ Len(src) = Len(sel.indices)
     /\ InBounds(sel, dest0)) =>
        LET ix == sel.indices
            At(k) == give_specific_iter(k, ix, src, dest0)
        IN  /\ outcome = "ok"
            /\ Len(dest) = Len(dest0)
            /\ \A k \in 1..Len(ix) :
                   /\ ~At(k).panic
                   /\ At(k).list[ix[k] + 1] = src[k]
                   /\ \A p \in 1..Len(dest0) :
                          p # ix[k] + 1 => At(k).list[p] = At(k - 1).list[p]
            /\ \A k \in 1..Len(ix) :
                   (\A j \in (k + 1)..Len(ix) : ix[j] # ix[k]) =>
                       dest[ix[k] + 1] = src[k]
            /\ \A p \in 1..Len(dest0) :
                   p \notin Selected(sel, dest0) => dest[p] = dest0[p]

GiveSpecificWritesWitness ==
    /\ selpc = "gave"
    /\ outcome = "ok"
    /\ sel = Selection_specific(<<2, 0>>)
    /\ Len(src) = 2 /\ src[1] # src[2]
    /\ Len(dest0) = 3
    /\ dest[3] = src[1] /\ dest[1] = src[2] /\ dest[2] # src[1]

\* C5: for Specific(indices) with every index in bounds, take returns
\* |indices| elements, the k-th being data[indices[k]], in the order the
\* indices are listed, a repeated index giving a repeated element; data is
\* not modified.
TakeSpecificReturns ==
    (/\ selpc = "took"
     /\ sel.kind = "Specific"
     /\ InBounds(sel, dest0)) =>
        /\ outcome = "ok"
        /\ Len(taken) = Len(sel.indices)
        /\ \A k \in 1..Len(sel.indices) : taken[k] = dest0[sel.indices[k] + 1]
        /\ dest = dest0

TakeSpecificReturnsWitness ==
    /\ selpc = "took"
    /\ outcome = "ok"
    /\ sel = Selection_specific(<<1, 1>>)
    /\ Len(dest0) = 3
    /\ dest0[1] # dest0[2]
    /\ Len(taken) = 2

\* C6: for Range(start, end) with start <= end <= length, take returns the
\* end - start elements at positions start..end-1 in order; give with a
\* source of length end - start sets dest[start + k] = source[k] for every k,
\* leaves every position outside [start, end) as it was and keeps the length.
RangeTakeGive ==
    /\ (/\ selpc = "took"
        /\ sel.kind = "Range"
        /\ InBounds(sel, dest0)) =>
           /\ outcome = "ok"
           /\ Len(taken) = sel.end - sel.start
           /\ \A k \in 0..(sel.end - sel.start - 1) :
                  taken[k + 1] = dest0[sel.start + k + 1]
           /\ dest = dest0
    /\ (/\ selpc = "gave"
        /\ sel.kind = "Range"
        /\ InBounds(sel, dest0)
        /\ Len(src) = sel.end - sel.start) =>
           /\ outcome = "ok"
           /\ Len(dest) = Len(dest0)
           /\ \A k \in 0..(sel.end - sel.start - 1) :
                  dest[sel.start + k + 1] = src[k + 1]
           /\ \A p \in 1..Len(dest0) :
                  (p <= sel.start \/ p > sel.end) => dest[p] = dest0[p]

RangeTakeGiveWitness ==
    /\ selpc = "gave"
    /\ outcome = "ok"
    /\ sel = Selection_range(1, 3)
    /\ Len(src) = 2
    /\ Len(dest0) = 3
    /\ dest0[2] # src[1]
    /\ dest[2] = src[1]

\* how much of the list the selection names
SelectionSize(s, list) ==
    CASE s.kind = "Specific" -> Len(s.indices)
      [] s.kind = "Range"    -> s.end - s.start
      [] s.kind = "All"      -> Len(list)

\* C7: give fails with a length-mismatch error, and neither truncates,
\* grows nor shrinks the destination, whenever the source length differs
\* from the size of the selection (Range: end - start; All: the length of
\* the destination).
GiveLengthMismatchFails ==
    (/\ selpc = "gave"
     /\ sel.kind \in {"Range", "All"}
     /\ InBounds(sel, dest0)
     /\ Len(src) # SelectionSize(sel, dest0)) =>
        /\ outcome = "length_mismatch"
        /\ Len(dest) = Len(dest0)

\* C8: take and give report an out-of-range error, leave the list as it was
\* and never abort, when a Specific index is >= the length or a Range has
\* end > length or end < start.
OutOfRangeIsAnError ==
    (/\ selpc \in {"took", "gave"}
     /\ ~InBounds(sel, dest0)) =>
        /\ outcome # "panic"
        /\ outcome = "out_of_range"
        /\ dest = dest0

-----------------------------------------------------------------------------
(* FaceSpec: a Face built from a 1-based triple and converted to a String *)

FaceInit ==
    /\ input \in (0..UsizeMax) \X (0..UsizeMax) \X (0..UsizeMax)
    /\ face = "none"
    /\ text = <<>>
    /\ fpc = "start"
    /\ SelIdle /\ GeoIdle /\ RestIdle

\* let face = Face::new(a, b, c)
FaceNew ==
    /\ fpc = "start"
    /\ face' = Face_new(input[1], input[2], input[3])
    /\ fpc' = "built"
    /\ UNCHANGED <<input, text, selVars, geoVars, restVars>>

\* let text = String::from(face)
FaceToString ==
    /\ fpc = "built"
    /\ text' = String_from_Face(face)
    /\ fpc' = "printed"
    /\ UNCHANGED <<input, face, selVars, geoVars, restVars>>

FaceNext == FaceNew \/ FaceToString

FaceSpec == FaceInit /\ [][FaceNext]_vars

\* the decimal numerals of the numbers a face line can hold here
Numeral(n) ==
    CASE n = 0 -> <<"0">> [] n = 1 -> <<"1">> [] n = 2 -> <<"2">> [] n = 3 -> <<"3">>
      [] n = 4 -> <<"4">> [] n = 5 -> <<"5">> [] n = 6 -> <<"6">> [] n = 7 -> <<"7">>
      [] n = 8 -> <<"8">> [] n = 9 -> <<"9">> [] n = 10 -> <<"1", "0">>
      [] n = 11 -> <<"1", "1">> [] n = 12 -> <<"1", "2">>

\* C10: for 1-based inputs a, b, c >= 1, Face::new stores the 0-based
\* indices (a-1, b-1, c-1), and the String made from that face reads
\* "f a b c" with the original 1-based numbers.
FaceRoundTrip ==
    (/\ fpc \in {"built", "printed"}
     /\ input[1] >= 1 /\ input[2] >= 1 /\ input[3] >= 1) =>
        /\ face = [a |-> input[1] - 1, b |-> input[2] - 1, c |-> input[3] - 1]
        /\ fpc = "printed" =>
               text = <<"f", " ">> \o Numeral(input[1]) \o <<" ">>
                        \o Numeral(input[2]) \o <<" ">> \o Numeral(input[3])

FaceRoundTripWitness ==
    /\ fpc = "printed"
    /\ input = <<1, 3, 9>>
    /\ face = [a |-> 0, b |-> 2, c |-> 8]
    /\ text = <<"f", " ", "1", " ", "3", " ", "9">>

\* a 1-based input as Face::new takes it: 0 counts as 1
AsOneBased(n) == IF n = 0 THEN 1 ELSE n

\* C28: Face construction saturates at 0: an input component of 0 is stored
\* as index 0, as an input of 1 is, so two inputs that differ only in 0
\* against 1 give the same face, and the text made from the face prints 1
\* for a component given as 0; every input gives a face, with no index
\* below 0 or wrapped round.
FaceSaturatesAtZero ==
    fpc \in {"built", "printed"} =>
        /\ face = [a |-> AsOneBased(input[1]) - 1,
                   b |-> AsOneBased(input[2]) - 1,
                   c |-> AsOneBased(input[3]) - 1]
        /\ face = Face_new(AsOneBased(input[1]), AsOneBased(input[2]), AsOneBased(input[3]))
        /\ \A k \in {face.a, face.b, face.c} : 0 <= k /\ k < UsizeMax
        /\ fpc = "printed" =>
               text = <<"f", " ">> \o Numeral(AsOneBased(input[1])) \o <<" ">>
                        \o Numeral(AsOneBased(input[2])) \o <<" ">>
                        \o Numeral(AsOneBased(input[3]))

FaceSaturatesAtZeroWitness ==
    /\ fpc = "printed"
    /\ input = <<0, 1, 2>>
    /\ face = [a |-> 0, b |-> 0, c |-> 1]
    /\ text = <<"f", " ", "1", " ", "1", " ", "2">>

-----------------------------------------------------------------------------
(* GeoSpec: a Geometry built from raw data and validated *)

\* the vertices of the cube the tests use, in their order
CubeVertex(k) ==
    Vector_new(1 - 2 * (k % 2), 1 - 2 * ((k \div 2) % 2), 1 - 2 * ((k \div 4) % 2))

CubeVertices(n) == [k \in 1..n |-> CubeVertex(k - 1)]

\* 1-based face inputs: 0 (which saturates), the first vertex, the last
\* vertex of the longest list and the first number past it
FaceInputs == {0, 1, MaxLen, MaxLen + 1}

RawFaces == {Face_new(a, b, c) : a, b, c \in FaceInputs}

GeoInit ==
    /\ vertices \in {CubeVertices(n) : n \in 0..MaxLen}
    /\ faces \in SeqsUpTo(RawFaces, MaxFaces)
    /\ item = "none"
    /\ pc = "raw"
    /\ last = "none"
    /\ prev = Geometry_new(vertices, faces)
    /\ applies = 0
    /\ SelIdle /\ FaceIdle /\ RestIdle

\* geometry.validated(): Ok(self) or Err; on Err the geometry is dropped,
\* and vertices and faces keep naming what it held
Validated ==
    /\ pc = "raw"
    /\ LET r == Geometry_validated(Geometry_new(vertices, faces))
       IN  IF r.ok
           THEN /\ pc' = "valid"
                /\ vertices' = r.geometry.vertices
                /\ faces' = r.geometry.faces
           ELSE /\ pc' = "invalid"
                /\ UNCHANGED <<vertices, faces>>
    /\ last' = "validated"
    /\ prev' = Geometry_new(vertices, faces)
    /\ UNCHANGED <<item, applies, selVars, faceVars, restVars>>

\* the matrices a geometry is transformed by
GeoMatrices == {Matrix_translate(1, 2, 3), Matrix_scale(2, 0, -1)}

\* geometry.transform(&matrix), once
Transform ==
    /\ applies = 0
    /\ \E matrix \in GeoMatrices :
           LET g == Geometry_transform(Geometry_new(vertices, faces), matrix)
           IN  /\ vertices' = g.vertices
               /\ faces' = g.faces
               /\ arg' = matrix
    /\ last' = "transform"
    /\ prev' = Geometry_new(vertices, faces)
    /\ applies' = applies + 1
    /\ UNCHANGED <<item, pc, selVars, faceVars,
                   attribute, prevAttr, base, streak, laterVars>>

GeoNext == Validated \/ Transform

GeoSpec == GeoInit /\ [][GeoNext]_vars

\* C9: validated() returns an error if and only if at least one face has an
\* index a, b or c >= the number of vertices; otherwise it returns the
\* geometry with vertices and faces unchanged.
ValidatedIffInRange ==
    last = "validated" =>
        LET count == Len(prev.vertices)
            bad   == \E k \in 1..Len(prev.faces) :
                         \/ prev.faces[k].a >= count
                         \/ prev.faces[k].b >= count
                         \/ prev.faces[k].c >= count
        IN  /\ pc = "invalid" <=> bad
            /\ pc = "valid" <=> ~bad
            /\ pc = "valid" => (vertices = prev.vertices /\ faces = prev.faces)

ValidatedIffInRangeWitness ==
    /\ last = "validated"
    /\ pc = "invalid"
    /\ Len(vertices) = 3
    /\ Len(faces) = 2
    /\ faces[1] = [a |-> 0, b |-> 2, c |-> 2]
    /\ faces[2] = [a |-> 0, b |-> 0, c |-> 3]

\* C16: Geometry.transform(matrix) transforms each element of the vertex
\* array exactly once, however many faces refer to it (none, one or
\* several), and leaves the face list and the vertex count as they were.
TransformEachVertexOnce ==
    last = "transform" =>
        /\ Len(vertices) = Len(prev.vertices)
        /\ faces = prev.faces
        /\ \A p \in 1..Len(prev.vertices) :
               vertices[p] = Vector_transform(prev.vertices[p], arg)

\* vertex 0 is referred to three times, vertex 1 never
TransformEachVertexOnceWitness ==
    /\ last = "transform"
    /\ arg = Matrix_translate(1, 2, 3)
    /\ faces = <<[a |-> 0, b |-> 0, c |-> 2], [a |-> 0, b |-> 2, c |-> 2]>>
    /\ prev.vertices = CubeVertices(3)
    /\ vertices = <<Vector_new(2, 3, 4), Vector_new(0, 3, 4), Vector_new(2, 1, 4)>>

-----------------------------------------------------------------------------
(* Spec: one AttributeItem re-parametrized and applied to the vertex list *)
(* of a validated Geometry                                                 *)

\* the magnitudes update_magnitude is given
Magnitudes == {-1, 2}

\* the dimensions an item is built with and update_dimension is given
Dimensions == {Vector_new(1, 0, 0), Vector_new(1, 2, -1)}

Operations == {"Scale", "Rotate", "Translate"}

\* AttributeItem::scale_specific .. translate_all: a selection paired with
\* a new alteration of the operation, with the dimension given
Items ==
    {AttributeItem_new(s, Alteration_with_dimension(Alteration_new(o), d)) :
        s \in Selections(NumVerts), o \in Operations, d \in Dimensions}

\* the face lists of the geometry: none, one in range for NumVerts
\* vertices, one out of range
ItemFaces ==
    {<<>>, <<Face_new(1, 2, NumVerts)>>, <<Face_new(1, NumVerts + 1, 2)>>}

Init ==
    /\ vertices = CubeVertices(NumVerts)
    /\ faces \in ItemFaces
    /\ item \in Items
    /\ pc = "raw"
    /\ last = "none"
    /\ prev = Geometry_new(vertices, faces)
    /\ applies = 0
    /\ SelIdle /\ FaceIdle /\ RestIdle

\* the program goes on after every call but one that panicked
Running == last # "apply_panic"

\* item.update_magnitude(m)
UpdateMagnitude ==
    /\ Running
    /\ \E m \in Magnitudes :
           item' = AttributeItem_update_magnitude(item, m)
    /\ last' = "update_magnitude"
    /\ prev' = Geometry_new(vertices, faces)
    /\ UNCHANGED <<vertices, faces, pc, applies, selVars, faceVars, restVars>>

\* item.update_dimension(d)
UpdateDimension ==
    /\ Running
    /\ \E d \in Dimensions :
           item' = AttributeItem_update_dimension(item, d)
    /\ last' = "update_dimension"
    /\ prev' = Geometry_new(vertices, faces)
    /\ UNCHANGED <<vertices, faces, pc, applies, selVars, faceVars, restVars>>

\* item.apply(geometry.vertices_mut()), on a geometry validated() returned
Apply ==
    /\ Running
    /\ pc = "valid"
    /\ applies < MaxApplies
    /\ LET r == AttributeItem_apply(item, vertices)
       IN  /\ vertices' = r.list
           /\ last' = IF r.panic THEN "apply_panic" ELSE "apply"
    /\ prev' = Geometry_new(vertices, faces)
    /\ applies' = applies + 1
    /\ UNCHANGED <<faces, item, pc, selVars, faceVars, restVars>>

Next == Validated \/ UpdateMagnitude \/ UpdateDimension \/ Apply

Spec == Init /\ [][Next]_vars

\* C2: apply changes only the vertices the item's selection addresses: a
\* vertex whose index is not selected is as before, and a selected vertex
\* holds its old value transformed by the item's current matrix.
ApplyChangesOnlySelected ==
    /\ last = "apply" =>
           LET old    == prev.vertices
               matrix == Alteration_matrix(item.alteration)
           IN  /\ InBounds(item.selection, old)
               /\ Len(vertices) = Len(old)
               /\ \A p \in 1..Len(old) :
                      IF p \in Selected(item.selection, old)
                      THEN vertices[p] = Vector_transform(old[p], matrix)
                      ELSE vertices[p] = old[p]
    /\ last = "apply_panic" =>
           /\ ~InBounds(item.selection, prev.vertices)
           /\ vertices = prev.vertices

ApplyChangesOnlySelectedWitness ==
    /\ last = "apply"
    /\ item.selection = Selection_specific(<<1>>)
    /\ item.alteration.operation = "Translate"
    /\ item.alteration.magnitude = 2
    /\ item.alteration.dimension = Vector_new(1, 2, -1)
    /\ applies = 1
    /\ vertices[1] = CubeVertex(0)
    /\ vertices[2] = Vector_new(1, 5, -1)

\* C3: from a Geometry validated() returned, after any sequence of
\* update_magnitude, update_dimension and apply calls the number of vertices
\* is the initial number and every face is still valid.
CountAndFacesKept ==
    pc = "valid" =>
        /\ Len(vertices) = Len(CubeVertices(NumVerts))
        /\ \A k \in 1..Len(faces) :
               /\ faces[k].a < Len(vertices)
               /\ faces[k].b < Len(vertices)
               /\ faces[k].c < Len(vertices)

CountAndFacesKeptWitness ==
    /\ pc = "valid"
    /\ Len(faces) = 1
    /\ applies = 2
    /\ last = "apply"
    /\ item.selection.kind = "Range"
    /\ item.selection.end - item.selection.start = 1
    /\ vertices # CubeVertices(NumVerts)

\* C27: when a Specific selection lists an index more than once, one apply
\* transforms that vertex once: take copies the original value for every
\* occurrence, and the vertex ends as matrix(original), not as the matrix
\* applied twice.
RepeatedIndexOnce ==
    (last = "apply" /\ item.selection.kind = "Specific") =>
        LET old     == prev.vertices
            indices == item.selection.indices
            matrix  == Alteration_matrix(item.alteration)
            copies  == Selection_take(item.selection, old).list
        IN  \A j, k \in 1..Len(indices) :
                (j # k /\ indices[j] = indices[k]) =>
                    /\ copies[j] = old[indices[j] + 1]
                    /\ copies[k] = old[indices[j] + 1]
                    /\ vertices[indices[j] + 1] =
                           Vector_transform(old[indices[j] + 1], matrix)

\* vertex 1 listed twice and translated by (2, 4, -2): moved once, where
\* twice would be (3, 9, -3)
RepeatedIndexOnceWitness ==
    /\ last = "apply"
    /\ applies = 1
    /\ item.selection = Selection_specific(<<1, 1>>)
    /\ item.alteration =
           [magnitude |-> 2, dimension |-> Vector_new(1, 2, -1), operation |-> "Translate"]
    /\ prev.vertices[2] = Vector_new(-1, 1, 1)
    /\ vertices[2] = Vector_new(1, 5, -1)
    /\ vertices[2] # Vector_transform(Vector_transform(prev.vertices[2],
                                                       Alteration_matrix(item.alteration)),
                                      Alteration_matrix(item.alteration))

-----------------------------------------------------------------------------
(* AttrSpec: an Attribute re-parametrized by update and applied by revise *)

\* selections over the NumVerts vertices: one vertex named twice, all, and
\* one index out of bounds
AttrSelections ==
    {Selection_specific(<<1, 1>>), Selection_all, Selection_specific(<<NumVerts>>)}

\* the alterations an item comes with: built with a dimension, the magnitude
\* set by item.update_magnitude(1) or item.update_magnitude(2)
AttrAlterations ==
    {Alteration_update(Alteration_with_dimension(Alteration_new("Scale"),
                                                 Vector_new(1, 0, 0)), 1),
     Alteration_update(Alteration_with_dimension(Alteration_new("Rotate"),
                                                 Vector_new(1, 0, 0)), 1),
     Alteration_update(Alteration_with_dimension(Alteration_new("Translate"),
                                                 Vector_new(1, 2, -1)), 2)}

AttrItems ==
    {AttributeItem_new(s, a) : s \in AttrSelections, a \in AttrAlterations}

AttrInit ==
    /\ vertices = CubeVertices(NumVerts)
    /\ faces = <<Face_new(1, 2, NumVerts)>>
    /\ item = "none"
    /\ pc = "raw"
    /\ last = "none"
    /\ prev = Geometry_new(vertices, faces)
    /\ applies = 0
    /\ attribute \in {Attribute_new("Length", items) :
                         items \in SeqsUpTo(AttrItems, MaxItems) \ {<<>>}}
    /\ prevAttr = attribute
    /\ arg = "none"
    /\ base = vertices
    /\ streak = 0
    /\ SelIdle /\ FaceIdle /\ LaterIdle

\* attribute.update(m)
AttrUpdate ==
    /\ last # "revise_panic"
    /\ \E m \in Magnitudes :
           /\ attribute' = Attribute_update(attribute, m)
           /\ arg' = m
    /\ prevAttr' = attribute
    /\ base' = vertices
    /\ streak' = 0
    /\ last' = "update"
    /\ prev' = Geometry_new(vertices, faces)
    /\ UNCHANGED <<vertices, faces, item, pc, applies, selVars, faceVars, laterVars>>

\* attribute.revise(&mut geometry)
Revise ==
    /\ last # "revise_panic"
    /\ applies < MaxApplies
    /\ LET r == Attribute_revise(attribute, vertices)
       IN  /\ vertices' = r.list
           /\ last' = IF r.panic THEN "revise_panic" ELSE "revise"
    /\ prev' = Geometry_new(vertices, faces)
    /\ prevAttr' = attribute
    /\ applies' = applies + 1
    /\ streak' = streak + 1
    /\ UNCHANGED <<faces, item, pc, attribute, arg, base, selVars, faceVars, laterVars>>

AttrNext == AttrUpdate \/ Revise

AttrSpec == AttrInit /\ [][AttrNext]_vars

\* C11: after update(m) the magnitude of every item's alteration is m,
\* whatever it was before; each item's selection, operation and dimension,
\* the number of items and the name are unchanged.
UpdateBroadcasts ==
    last = "update" =>
        /\ attribute.name = prevAttr.name
        /\ Len(attribute.items) = Len(prevAttr.items)
        /\ \A k \in 1..Len(prevAttr.items) :
               LET new == attribute.items[k]
                   old == prevAttr.items[k]
               IN  /\ new.alteration.magnitude = arg
                   /\ new.selection = old.selection
                   /\ new.alteration.operation = old.alteration.operation
                   /\ new.alteration.dimension = old.alteration.dimension

UpdateBroadcastsWitness ==
    /\ last = "update"
    /\ arg = -1
    /\ Len(prevAttr.items) = 2
    /\ prevAttr.items[1].alteration.magnitude = 1
    /\ prevAttr.items[2].alteration.magnitude = 2
    /\ attribute.items[1].alteration.magnitude = -1
    /\ attribute.items[2].alteration.magnitude = -1

\* vertex v after the items k.. of the list, each transforming it when it
\* selects position p of the vertex list old
RECURSIVE InItemOrder(_, _, _, _, _)
InItemOrder(k, items, old, p, v) ==
    IF k > Len(items) THEN v
    ELSE InItemOrder(k + 1, items, old, p,
             IF p \in Selected(items[k].selection, old)
             THEN Vector_transform(v, Alteration_matrix(items[k].alteration))
             ELSE v)

\* item_1.apply; ...; item_k.apply on the vertex list vs
RECURSIVE AppliedInTurn(_, _, _)
AppliedInTurn(k, items, vs) ==
    IF k = 0 THEN vs
    ELSE AttributeItem_apply(items[k], AppliedInTurn(k - 1, items, vs)).list

\* C12: revise applies the items one after another in list order on the same
\* vertex list: a vertex two items select is transformed by the later item
\* from the value the earlier item wrote, and the final list is
\* item_1.apply; item_2.apply; ...; item_n.apply.
ReviseInItemOrder ==
    last = "revise" =>
        LET old   == prev.vertices
            items == attribute.items
        IN  /\ Len(vertices) = Len(old)
            /\ \A p \in 1..Len(old) :
                   vertices[p] = InItemOrder(1, items, old, p, old[p])
            /\ vertices = AppliedInTurn(Len(items), items, old)

ReviseInItemOrderWitness ==
    /\ last = "revise"
    /\ Len(attribute.items) = 2
    /\ attribute.items[1].selection = Selection_all
    /\ attribute.items[1].alteration =
           [magnitude |-> 2, dimension |-> Vector_new(1, 2, -1), operation |-> "Translate"]
    /\ attribute.items[2].selection = Selection_specific(<<1, 1>>)
    /\ attribute.items[2].alteration =
           [magnitude |-> 1, dimension |-> Vector_new(1, 0, 0), operation |-> "Scale"]
    /\ prev.vertices = CubeVertices(NumVerts)
    /\ vertices[1] = Vector_new(3, 5, -1)
    /\ vertices[2] = Vector_new(1, 0, 0)

\* the sum of magnitude * dimension over the Translate items that select
\* position p
RECURSIVE Displacement(_, _, _, _)
Displacement(k, items, old, p) ==
    IF k = 0 THEN Vector_new(0, 0, 0)
    ELSE LET rest == Displacement(k - 1, items, old, p)
             a    == items[k].alteration
         IN  IF p \in Selected(items[k].selection, old)
             THEN [x |-> rest.x + a.magnitude * a.dimension.x,
                   y |-> rest.y + a.magnitude * a.dimension.y,
                   z |-> rest.z + a.magnitude * a.dimension.z]
             ELSE rest

AllTranslate(items) ==
    \A k \in 1..Len(items) : items[k].alteration.operation = "Translate"

\* n revise calls with the same parameters displace by n * m * d
TranslateCompounds ==
    (last = "revise" /\ AllTranslate(attribute.items)) =>
        \A p \in 1..Len(base) :
            LET d == Displacement(Len(attribute.items), attribute.items, base, p)
            IN  vertices[p] = [x |-> base[p].x + streak * d.x,
                               y |-> base[p].y + streak * d.y,
                               z |-> base[p].z + streak * d.z]

\* C13 as claimed: revise is relative, n revise calls of a Translate item
\* displace the selected vertices by n * m * d, and apply is not idempotent
\* for a non-identity alteration: when the first call of an item changed the
\* vertex list, the second call with the same parameters changes it again.
ReviseNeverIdempotent ==
    /\ TranslateCompounds
    /\ (/\ last = "revise"
        /\ streak = 2
        /\ Len(attribute.items) = 1
        /\ prev.vertices # base) => vertices # prev.vertices

\* C13 as amended: n revise calls of Translate items displace the selected
\* vertices by n * m * d from where they were, never back to an original
\* pose; every call of a Translate item with m * d # 0 over a selection that
\* is not empty changes the vertex list again, so apply is not idempotent
\* for it.
ReviseCompounds ==
    /\ TranslateCompounds
    /\ (/\ last = "revise"
        /\ Len(attribute.items) = 1
        /\ attribute.items[1].alteration.operation = "Translate"
        /\ Displacement(1, attribute.items, base, 1) # Vector_new(0, 0, 0)) =>
           vertices # prev.vertices

ReviseCompoundsWitness ==
    /\ last = "revise"
    /\ streak = 2
    /\ Len(attribute.items) = 1
    /\ attribute.items[1].selection = Selection_specific(<<1, 1>>)
    /\ attribute.items[1].alteration =
           [magnitude |-> 2, dimension |-> Vector_new(1, 2, -1), operation |-> "Translate"]
    /\ base = CubeVertices(NumVerts)
    /\ vertices[2] = Vector_new(3, 9, -3)
    /\ vertices[1] = base[1]

-----------------------------------------------------------------------------
(* AltSpec: an Alteration made by new, with_magnitude, with_dimension and  *)
(* build, then applied to a list of points                              *)

\* the magnitudes with_magnitude is given
AltMagnitudes == Magnitudes \cup {0}

AltPoints == {Vector_new(1, 1, 1), Vector_new(-1, 2, 3)}

AltInit ==
    /\ alt \in {Alteration_new(o) : o \in Operations}
    /\ built = "none"
    /\ pts \in SeqsUpTo(AltPoints, NumVerts)
    /\ pts0 = pts
    /\ altpc = "new"
    /\ SelIdle /\ GeoIdle /\ FaceIdle /\ AttrIdle /\ MatIdle /\ VecIdle /\ ExtraIdle

altOthers == <<selVars, geoVars, faceVars, attrVars, matVars, vecVars, extraVars>>

\* .with_magnitude(m)
WithMagnitude ==
    /\ altpc = "new"
    /\ \E m \in AltMagnitudes : alt' = Alteration_with_magnitude(alt, m)
    /\ UNCHANGED <<built, pts, pts0, altpc, altOthers>>

\* .with_dimension(d)
WithDimension ==
    /\ altpc = "new"
    /\ \E d \in Dimensions : alt' = Alteration_with_dimension(alt, d)
    /\ UNCHANGED <<built, pts, pts0, altpc, altOthers>>

\* .build()
Build ==
    /\ altpc = "new"
    /\ built' = Alteration_build(alt)
    /\ altpc' = "built"
    /\ UNCHANGED <<alt, pts, pts0, altOthers>>

\* change.apply(&mut data)
AltApply ==
    /\ altpc = "built"
    /\ pts' = Alteration_apply(built, pts)
    /\ pts0' = pts
    /\ altpc' = "applied"
    /\ UNCHANGED <<alt, built, altOthers>>

AltNext == WithMagnitude \/ WithDimension \/ Build \/ AltApply

AltSpec == AltInit /\ [][AltNext]_vars

\* C14: building a Scale alteration whose magnitude is 0 fails with
\* FixedAttribute; it is not silently accepted.
BuildRejectsFixedScale ==
    (/\ altpc \in {"built", "applied"}
     /\ alt.operation = "Scale"
     /\ alt.magnitude = 0) => built = [error |-> "FixedAttribute"]

\* C17: apply builds its matrix from dimension * magnitude, componentwise,
\* and the constructor matching the operation: Translate moves every vertex
\* v of the list to v + m * d, Scale maps it to (v.x * m * d.x,
\* v.y * m * d.y, v.z * m * d.z), Rotate turns it by the angles m * d; no
\* vertex of the list is left out.
AlterationApplyFormula ==
    altpc = "applied" =>
        LET m == built.magnitude
            d == built.dimension
        IN  /\ Len(pts) = Len(pts0)
            /\ \A p \in 1..Len(pts0) :
                   LET v == pts0[p]
                   IN  CASE built.operation = "Translate" ->
                                pts[p] = Vector_new(v.x + m * d.x,
                                                       v.y + m * d.y,
                                                       v.z + m * d.z)
                         [] built.operation = "Scale" ->
                                pts[p] = Vector_new(v.x * m * d.x,
                                                       v.y * m * d.y,
                                                       v.z * m * d.z)
                         [] built.operation = "Rotate" ->
                                pts[p] = Vector_transform(v,
                                    Matrix_rotate(m * d.x, m * d.y, m * d.z))

AlterationApplyFormulaWitness ==
    /\ altpc = "applied"
    /\ built = [magnitude |-> 2, dimension |-> Vector_new(1, 2, -1),
                operation |-> "Translate"]
    /\ pts0 = <<Vector_new(1, 1, 1), Vector_new(-1, 2, 3)>>
    /\ pts = <<Vector_new(3, 5, -1), Vector_new(1, 6, 1)>>

-----------------------------------------------------------------------------
(* BoxSpec: the Length attribute of the test of part.rs, on 8-vertex boxes *)

\* the orders a box lists its corners in: x changing fastest, as the cube
\* of the tests, or slowest, from low x to high x or from high x to low x
BoxOrders == {"x_fastest", "x_slowest", "x_slowest_reversed"}

\* the half extents of a box centred at the origin
BoxExtents == {Vector_new(hx, hy, hz) : hx, hy, hz \in {1, 2}}

\* corner k of the box, k in 0..7
BoxCorner(order, h, k) ==
    LET b0 == k % 2
        b1 == (k \div 2) % 2
        b2 == (k \div 4) % 2
    IN  CASE order = "x_fastest" ->
                 Vector_new(h.x * (1 - 2 * b0), h.y * (1 - 2 * b1), h.z * (1 - 2 * b2))
          [] order = "x_slowest" ->
                 Vector_new(h.x * (2 * b2 - 1), h.y * (1 - 2 * b1), h.z * (1 - 2 * b0))
          [] order = "x_slowest_reversed" ->
                 Vector_new(h.x * (1 - 2 * b2), h.y * (1 - 2 * b1), h.z * (1 - 2 * b0))

Box(order, h) == [k \in 1..8 |-> BoxCorner(order, h, k - 1)]

\* Attribute::new("Length", [translate_specific((1,0,0), [4,5,6,7]),
\*                           translate_specific((-1,0,0), [0,1,2,3])])
Length ==
    Attribute_new("Length",
        <<AttributeItem_new(Selection_specific(<<4, 5, 6, 7>>),
              Alteration_with_dimension(Alteration_new("Translate"), Vector_new(1, 0, 0))),
          AttributeItem_new(Selection_specific(<<0, 1, 2, 3>>),
              Alteration_with_dimension(Alteration_new("Translate"), Vector_new(-1, 0, 0)))>>)

BoxInit ==
    /\ vertices \in {Box(o, h) : o \in BoxOrders, h \in BoxExtents}
    /\ faces = <<Face_new(1, 2, 3)>>
    /\ item = "none"
    /\ pc = "raw"
    /\ last = "none"
    /\ prev = Geometry_new(vertices, faces)
    /\ applies = 0
    /\ attribute = Length
    /\ prevAttr = attribute
    /\ arg = "none"
    /\ base = vertices
    /\ streak = 0
    /\ SelIdle /\ FaceIdle /\ LaterIdle

BoxSpec == BoxInit /\ [][AttrNext]_vars

\* the distance between the two centroids, squared, in the vertex list vs
Apart(vs) == Attribute_distance_squared(attribute, vs, 0, 1)

\* sqrt(after) = sqrt(before) + 4, on integers: after - before - 16 is
\* 8 * sqrt(before)
FourMore(before, after) ==
    LET r == after - before - 16
    IN  r >= 0 /\ r * r = 64 * before

\* update(2.0) followed by one revise has just happened: the items, built
\* with magnitude 0, hold magnitude 2
UpdatedAndRevised ==
    /\ last = "revise"
    /\ streak = 1
    /\ \A k \in 1..Len(attribute.items) : attribute.items[k].alteration.magnitude = 2

\* the centroid of the vertices 4..7 lies straight ahead of the centroid of
\* the vertices 0..3 along x, or on it
FrontAhead(vs) ==
    LET front == centroid(attribute.items[1].selection, vs)
        back  == centroid(attribute.items[2].selection, vs)
    IN  front.x >= back.x /\ front.y = back.y /\ front.z = back.z

\* C15 as claimed: for an 8-vertex box and the Length attribute, update(2.0)
\* followed by one revise makes distance(geometry, 0, 1) exactly 4.0 larger
\* than it was before the revise.
BoxGrowsByFour ==
    UpdatedAndRevised => FourMore(Apart(prev.vertices), Apart(vertices))

\* C15 as amended: the distance grows by exactly 4.0 when, before the
\* revise, the centroid of the vertices 4..7 lies ahead of (or on) the
\* centroid of the vertices 0..3 along x and nowhere else apart from it; for
\* every other box it does not grow by 4.0. Each centroid moves by 2 along
\* its item's direction either way.
BoxGrowsByFourWhenAhead ==
    UpdatedAndRevised =>
        LET old == prev.vertices
            s1  == attribute.items[1].selection
            s2  == attribute.items[2].selection
        IN  /\ centroid(s1, vertices) =
                   Vector_new(centroid(s1, old).x + 2, centroid(s1, old).y, centroid(s1, old).z)
            /\ centroid(s2, vertices) =
                   Vector_new(centroid(s2, old).x - 2, centroid(s2, old).y, centroid(s2, old).z)
            /\ FrontAhead(old) <=> FourMore(Apart(old), Apart(vertices))

BoxGrowsByFourWhenAheadWitness ==
    /\ UpdatedAndRevised
    /\ prev.vertices = Box("x_slowest", Vector_new(2, 1, 1))
    /\ Apart(prev.vertices) = 16
    /\ Apart(vertices) = 64
    /\ vertices[5] = Vector_new(4, 1, 1)
    /\ vertices[1] = Vector_new(-4, 1, 1)

-----------------------------------------------------------------------------
(* RotSpec: Matrix::rotate(x, y, z) and a vertex transformed by it *)

RotInit ==
    /\ angles \in {<<x, y, z>> : x, y, z \in 0..MaxAngle}
    /\ point \in {Vector_new(1, 2, 3), Vector_new(1, 0, 0)}
    /\ rot = "none"
    /\ moved = "none"
    /\ ma = "none" /\ mb = "none" /\ mc = "none"
    /\ left = "none" /\ right = "none"
    /\ mpc = "start"
    /\ SelIdle /\ GeoIdle /\ FaceIdle /\ AttrIdle /\ AltIdle /\ VecIdle /\ ExtraIdle

matOthers == <<selVars, geoVars, faceVars, attrVars, altVars, vecVars, extraVars>>

\* let m = Matrix::rotate(x, y, z)
Rotate ==
    /\ mpc = "start"
    /\ rot' = Matrix_rotate(angles[1], angles[2], angles[3])
    /\ mpc' = "rotated"
    /\ UNCHANGED <<angles, point, moved, ma, mb, mc, left, right, matOthers>>

\* vertex.transform(&m)
TransformVertex ==
    /\ mpc = "rotated"
    /\ moved' = Vector_transform(point, rot)
    /\ mpc' = "moved"
    /\ UNCHANGED <<angles, point, rot, ma, mb, mc, left, right, matOthers>>

RotNext == Rotate \/ TransformVertex

RotSpec == RotInit /\ [][RotNext]_vars

\* entry (r, c) of a matrix, r and c in 1..4
Entry(m, r, c) == m[4 * (r - 1) + c]

\* the sum of a[r, k] * b[k, c] for k in 1..n
RECURSIVE RowByColumn(_, _, _, _, _)
RowByColumn(a, b, r, c, n) ==
    IF n = 0 THEN 0
    ELSE RowByColumn(a, b, r, c, n - 1) + Entry(a, r, n) * Entry(b, n, c)

\* the standard 4x4 product
Product(a, b) ==
    [i \in 1..16 |-> RowByColumn(a, b, ((i - 1) \div 4) + 1, ((i - 1) % 4) + 1, 4)]

\* a vertex as a column (x, y, z, 1) multiplied by the matrix
Image(m, v) ==
    Vector_new(Entry(m, 1, 1) * v.x + Entry(m, 1, 2) * v.y + Entry(m, 1, 3) * v.z + Entry(m, 1, 4),
               Entry(m, 2, 1) * v.x + Entry(m, 2, 2) * v.y + Entry(m, 2, 3) * v.z + Entry(m, 2, 4),
               Entry(m, 3, 1) * v.x + Entry(m, 3, 2) * v.y + Entry(m, 3, 3) * v.z + Entry(m, 3, 4))

RX == Matrix_rotate_x(angles[1])
RY == Matrix_rotate_y(angles[2])
RZ == Matrix_rotate_z(angles[3])

\* C18: for all angles (x, y, z), rotate(x, y, z) is the product
\* rotate_x(x) * rotate_y(y) * rotate_z(z) in that order, and a vertex
\* transformed by rotate(x, y, z) is the vertex transformed by the
\* explicitly multiplied product.
RotateIsXYZ ==
    /\ mpc \in {"rotated", "moved"} => rot = Product(Product(RX, RY), RZ)
    /\ mpc = "moved" => moved = Image(Product(Product(RX, RY), RZ), point)

\* angles for which every other order of the three factors gives another
\* matrix
RotateIsXYZWitness ==
    /\ mpc = "moved"
    /\ angles = <<1, 1, 2>>
    /\ point = Vector_new(1, 2, 3)
    /\ rot # Product(Product(RX, RZ), RY)
    /\ rot # Product(Product(RY, RX), RZ)
    /\ rot # Product(Product(RY, RZ), RX)
    /\ rot # Product(Product(RZ, RX), RY)
    /\ rot # Product(Product(RZ, RY), RX)
    /\ moved = Image(rot, point)

-----------------------------------------------------------------------------
(* MulSpec: three matrices multiplied, grouped to the left and to the right *)

\* matrices with small integer entries: the constructors' and two that are
\* not affine
Matrices ==
    {Matrix_scale(2, 3, -1), Matrix_translate(1, 2, 3), Matrix_rotate_x(1),
     Matrix_rotate_z(1), Matrix_new([i \in 1..16 |-> i]),
     Matrix_new([i \in 1..16 |-> IF i % 3 = 0 THEN -1 ELSE i % 2])}

MulInit ==
    /\ ma \in Matrices
    /\ mb \in Matrices
    /\ mc \in Matrices
    /\ left = "none" /\ right = "none"
    /\ mpc = "start"
    /\ angles = <<0, 0, 0>> /\ point = Vector_default
    /\ rot = "none" /\ moved = "none"
    /\ SelIdle /\ GeoIdle /\ FaceIdle /\ AttrIdle /\ AltIdle /\ VecIdle /\ ExtraIdle

\* (a * b) * c
MulLeft ==
    /\ mpc \in {"start", "right"}
    /\ left' = Matrix_mul(Matrix_mul(ma, mb), mc)
    /\ mpc' = IF mpc = "start" THEN "left" ELSE "both"
    /\ UNCHANGED <<angles, point, rot, moved, ma, mb, mc, right, matOthers>>

\* a * (b * c)
MulRight ==
    /\ mpc \in {"start", "left"}
    /\ right' = Matrix_mul(ma, Matrix_mul(mb, mc))
    /\ mpc' = IF mpc = "start" THEN "right" ELSE "both"
    /\ UNCHANGED <<angles, point, rot, moved, ma, mb, mc, left, matOthers>>

MulNext == MulLeft \/ MulRight

MulSpec == MulInit /\ [][MulNext]_vars

\* C19: matrix multiplication is the standard 4x4 row-by-column product and
\* is associative: for all matrices A, B, C of the set, (A * B) * C equals
\* A * (B * C).
MulIsAssociative ==
    /\ mpc \in {"left", "both"}  => left = Product(Product(ma, mb), mc)
    /\ mpc \in {"right", "both"} => right = Product(ma, Product(mb, mc))
    /\ mpc = "both" => left = right

\* three matrices no two of which commute
MulIsAssociativeWitness ==
    /\ mpc = "both"
    /\ ma = Matrix_translate(1, 2, 3)
    /\ mb = Matrix_new([i \in 1..16 |-> i])
    /\ mc = Matrix_rotate_x(1)
    /\ left = right
    /\ Product(ma, mb) # Product(mb, ma)
    /\ Product(mb, mc) # Product(mc, mb)
    /\ Product(ma, mc) # Product(mc, ma)

-----------------------------------------------------------------------------
(* VecSpec: Vector.normalize and Triangle.normal *)

\* the zero vector and the vectors along one axis: their magnitudes and the
\* components of their unit vectors are whole numbers
AxisVectors ==
    {Vector_new(k, 0, 0) : k \in -MaxCoord..MaxCoord}
        \cup {Vector_new(0, k, 0) : k \in -MaxCoord..MaxCoord}
        \cup {Vector_new(0, 0, k) : k \in -MaxCoord..MaxCoord}

\* points of the plane z = 0: a triangle over them has a normal along z, or
\* none when it is degenerate
PlanePoints ==
    {Vector_new(0, 0, 0), Vector_new(1, 0, 0), Vector_new(2, 0, 0),
     Vector_new(0, 1, 0), Vector_new(1, 1, 0)}

\* the same points in the planes x = 0 and y = 0
PlanePointsX == {Vector_new(p.z, p.x, p.y) : p \in PlanePoints}
PlanePointsY == {Vector_new(p.y, p.z, p.x) : p \in PlanePoints}

\* the triangles whose three points lie in one of the three planes
Triangles ==
    {[indices |-> <<0, 1, 2>>, p1 |-> q[1], p2 |-> q[2], p3 |-> q[3]] :
        q \in (PlanePoints \X PlanePoints \X PlanePoints)
                  \cup (PlanePointsX \X PlanePointsX \X PlanePointsX)
                  \cup (PlanePointsY \X PlanePointsY \X PlanePointsY)}

VecInit ==
    /\ vec \in AxisVectors
    /\ tri \in Triangles
    /\ unit = "none"
    /\ normal = "none"
    /\ flipped = "none"
    /\ vpc = {}
    /\ SelIdle /\ GeoIdle /\ FaceIdle /\ AttrIdle /\ AltIdle /\ MatIdle /\ ExtraIdle

vecOthers == <<selVars, geoVars, faceVars, attrVars, altVars, matVars, extraVars>>

\* vec.normalize()
Normalize ==
    /\ "normalize" \notin vpc
    /\ unit' = Vector_normalize(vec)
    /\ vpc' = vpc \cup {"normalize"}
    /\ UNCHANGED <<vec, tri, normal, flipped, vecOthers>>

\* tri.normal()
Normal ==
    /\ "normal" \notin vpc
    /\ normal' = Triangle_normal(tri)
    /\ vpc' = vpc \cup {"normal"}
    /\ UNCHANGED <<vec, tri, unit, flipped, vecOthers>>

\* the triangle with its second and third point exchanged
Reversed(t) ==
    [indices |-> <<t.indices[1], t.indices[3], t.indices[2]>>,
     p1 |-> t.p1, p2 |-> t.p3, p3 |-> t.p2]

\* the normal of the triangle wound the other way
NormalReversed ==
    /\ "reversed" \notin vpc
    /\ flipped' = Triangle_normal(Reversed(tri))
    /\ vpc' = vpc \cup {"reversed"}
    /\ UNCHANGED <<vec, tri, unit, normal, vecOthers>>

VecNext == Normalize \/ Normal \/ NormalReversed

VecSpec == VecInit /\ [][VecNext]_vars

\* every component is a number: no NaN, no infinity
Finite(v) == v.x # NotFinite /\ v.y # NotFinite /\ v.z # NotFinite

\* two points coincide, or the three lie on one line: s * (p2 - p1) equals
\* t * (p3 - p1) for whole numbers s, t not both 0
Degenerate(t) ==
    LET a == Vector_sub(t.p2, t.p1)
        b == Vector_sub(t.p3, t.p1)
    IN  \E s, u \in -MaxCoord..MaxCoord :
            /\ <<s, u>> # <<0, 0>>
            /\ s * a.x = u * b.x /\ s * a.y = u * b.y /\ s * a.z = u * b.z

\* C20: normalize never divides by zero: for the zero vector it returns the
\* vector unchanged, (0, 0, 0), and for any other vector the unit vector of
\* the same direction; so the normal of a degenerate triangle (collinear or
\* coincident points) is the zero vector, not NaN, and the normal of any
\* other triangle has length 1.
NormalizeGuardsZero ==
    /\ "normalize" \in vpc =>
           /\ Finite(unit)
           /\ IF vec = Vector_new(0, 0, 0)
              THEN unit = Vector_new(0, 0, 0)
              ELSE /\ unit.x * unit.x + unit.y * unit.y + unit.z * unit.z = 1
                   /\ \E m \in 1..MaxCoord :
                          vec = Vector_new(m * unit.x, m * unit.y, m * unit.z)
    /\ "normal" \in vpc =>
           /\ Finite(normal)
           /\ IF Degenerate(tri)
              THEN normal = Vector_new(0, 0, 0)
              ELSE normal.x * normal.x + normal.y * normal.y + normal.z * normal.z = 1

\* the zero vector normalized, and the normal of three points on one line
NormalizeGuardsZeroWitness ==
    /\ {"normalize", "normal"} \subseteq vpc
    /\ vec = Vector_new(0, 0, 0)
    /\ unit = Vector_new(0, 0, 0)
    /\ tri.p1 = Vector_new(0, 0, 0)
    /\ tri.p2 = Vector_new(1, 0, 0)
    /\ tri.p3 = Vector_new(2, 0, 0)
    /\ normal = Vector_new(0, 0, 0)

\* the cross product a x b
Cross(a, b) ==
    Vector_new(a.y * b.z - a.z * b.y, a.z * b.x - a.x * b.z, a.x * b.y - a.y * b.x)

\* n is the vector c scaled to length 1, or c when c is the zero vector
UnitOf(n, c) ==
    IF c = Vector_new(0, 0, 0) THEN n = c
    ELSE /\ n.x * n.x + n.y * n.y + n.z * n.z = 1
         /\ \E m \in 1..(2 * MaxCoord * MaxCoord) :
                c = Vector_new(m * n.x, m * n.y, m * n.z)

\* C21: Triangle.normal is the normalised cross product of p2 - p1 and
\* p3 - p1; for the triangle (0,0,0), (1,0,0), (0,1,0) it is (0,0,1); with
\* the second and third vertex exchanged the normal is the negated one.
NormalIsUnitCross ==
    /\ "normal" \in vpc =>
           /\ UnitOf(normal, Cross(Vector_sub(tri.p2, tri.p1), Vector_sub(tri.p3, tri.p1)))
           /\ (/\ tri.p1 = Vector_new(0, 0, 0)
               /\ tri.p2 = Vector_new(1, 0, 0)
               /\ tri.p3 = Vector_new(0, 1, 0)) => normal = Vector_new(0, 0, 1)
    /\ {"normal", "reversed"} \subseteq vpc =>
           flipped = Vector_new(0 - normal.x, 0 - normal.y, 0 - normal.z)

NormalIsUnitCrossWitness ==
    /\ {"normal", "reversed"} \subseteq vpc
    /\ tri.p1 = Vector_new(0, 0, 0)
    /\ tri.p2 = Vector_new(1, 0, 0)
    /\ tri.p3 = Vector_new(0, 1, 0)
    /\ normal = Vector_new(0, 0, 1)
    /\ flipped = Vector_new(0, 0, -1)

-----------------------------------------------------------------------------
(* AffSpec: matrices from the constructors, their products, and a vertex   *)
(* taken through them                                                      *)

\* matrices from each constructor, and the matrices the alterations of the
\* attributes build
Affine ==
    {Matrix_scale(2, 3, -1), Matrix_translate(1, 2, 3), Matrix_rotate_x(1),
     Matrix_rotate_y(1), Matrix_rotate_z(1), Matrix_rotate(1, 1, 2)}
        \cup {Alteration_matrix(a) : a \in AttrAlterations}

AffInit ==
    /\ ma \in Affine
    /\ mb \in Affine
    /\ mc \in Affine
    /\ point \in {Vector_new(1, 2, 3), Vector_new(1, 0, 0)}
    /\ left = "none" /\ right = "none"
    /\ mpc = "start"
    /\ angles = <<0, 0, 0>>
    /\ rot = "none" /\ moved = "none"
    /\ ChainIdle
    /\ SelIdle /\ GeoIdle /\ FaceIdle /\ AttrIdle /\ AltIdle /\ VecIdle
    /\ TriIdle /\ DocIdle

affOthers ==
    <<selVars, geoVars, faceVars, attrVars, altVars, vecVars, triVars, docVars>>

\* vertex.transform(&(a * b * c))
Combined ==
    /\ mpc = "both"
    /\ combined' = Vector_transform(point, left)
    /\ mpc' = "combined"
    /\ UNCHANGED <<chained, chainedRev, angles, point, rot, moved, ma, mb, mc,
                   left, right, affOthers>>

\* vertex.transform(&c); vertex.transform(&b); vertex.transform(&a)
Chained ==
    /\ mpc = "combined"
    /\ chained' = Vector_transform(Vector_transform(Vector_transform(point, mc), mb), ma)
    /\ mpc' = "chained"
    /\ UNCHANGED <<combined, chainedRev, angles, point, rot, moved, ma, mb, mc,
                   left, right, affOthers>>

\* vertex.transform(&a); vertex.transform(&b); vertex.transform(&c)
ChainedRev ==
    /\ mpc = "chained"
    /\ chainedRev' = Vector_transform(Vector_transform(Vector_transform(point, ma), mb), mc)
    /\ mpc' = "done"
    /\ UNCHANGED <<combined, chained, angles, point, rot, moved, ma, mb, mc,
                   left, right, affOthers>>

AffNext == MulLeft \/ MulRight \/ Combined \/ Chained \/ ChainedRev

AffSpec == AffInit /\ [][AffNext]_vars

BottomRow(m) == <<m[13], m[14], m[15], m[16]>>

\* the divisor of the perspective divide for vertex v
Dw(m, v) == m[13] * v.x + m[14] * v.y + m[15] * v.z + m[16]

\* the arguments the constructors are checked on
Args == (0 - 1)..MaxAngle

\* C24: every matrix produced by scale, translate, rotate_x, rotate_y,
\* rotate_z and rotate, and every product of such matrices, has the bottom
\* row (0, 0, 0, 1); so the divisor dw of Vector.transform is 1 for them, and
\* the divide neither divides by zero nor changes dx, dy, dz.
BottomRowKept ==
    /\ mpc = "start" =>
           \A x, y, z \in Args :
               /\ BottomRow(Matrix_scale(x, y, z)) = <<0, 0, 0, 1>>
               /\ BottomRow(Matrix_translate(x, y, z)) = <<0, 0, 0, 1>>
               /\ BottomRow(Matrix_rotate(x, y, z)) = <<0, 0, 0, 1>>
               /\ BottomRow(Matrix_rotate_x(x)) = <<0, 0, 0, 1>>
               /\ BottomRow(Matrix_rotate_y(y)) = <<0, 0, 0, 1>>
               /\ BottomRow(Matrix_rotate_z(z)) = <<0, 0, 0, 1>>
    /\ \A m \in {ma, mb, mc} : BottomRow(m) = <<0, 0, 0, 1>> /\ Dw(m, point) = 1
    /\ mpc \in {"left", "both", "combined", "chained", "done"} =>
           BottomRow(left) = <<0, 0, 0, 1>>
    /\ mpc \in {"right", "both", "combined", "chained", "done"} =>
           BottomRow(right) = <<0, 0, 0, 1>>
    /\ mpc \in {"combined", "chained", "done"} =>
           /\ Dw(left, point) = 1
           /\ combined = Image(left, point)

BottomRowKeptWitness ==
    /\ mpc = "combined"
    /\ ma = Matrix_translate(1, 2, 3)
    /\ mb = Matrix_rotate(1, 1, 2)
    /\ mc = Matrix_scale(2, 3, -1)
    /\ point = Vector_new(1, 2, 3)
    /\ BottomRow(left) = <<0, 0, 0, 1>>
    /\ left # ma /\ left # mb /\ left # mc
    /\ combined = Image(left, point)

\* C25: composition is right to left on application: a vertex transformed
\* by the product A * B is the vertex transformed first by B and then by A
\* (and by (A * B) * C: first by C, then B, then A); taken through the
\* matrices left to right it is the vertex transformed by the product in
\* the opposite order, in general another result.
CompositionRightToLeft ==
    /\ Vector_transform(point, Matrix_mul(ma, mb)) =
           Vector_transform(Vector_transform(point, mb), ma)
    /\ mpc \in {"chained", "done"} => chained = combined
    /\ mpc = "done" =>
           chainedRev = Image(Product(Product(mc, mb), ma), point)

\* the rotations of the tests: in series and combined they differ
CompositionRightToLeftWitness ==
    /\ mpc = "done"
    /\ ma = Matrix_rotate_x(1)
    /\ mb = Matrix_rotate_y(1)
    /\ mc = Matrix_rotate_z(1)
    /\ point = Vector_new(1, 2, 3)
    /\ combined = Vector_new(3, -2, 1)
    /\ chained = Vector_new(3, -2, 1)
    /\ chainedRev = Vector_new(3, 2, -1)

-----------------------------------------------------------------------------
(* TriSpec: a triangle taken from a geometry, then the triangle and the    *)
(* geometry each transformed                                               *)

\* a triangle that numbers its corners 0, 1, 2 instead of keeping the
\* face's indices
Face_triangle_positions(f, vs) ==
    IF f.a < Len(vs) /\ f.b < Len(vs) /\ f.c < Len(vs)
    THEN [panic |-> FALSE,
          triangle |-> [indices |-> <<0, 1, 2>>,
                        p1 |-> vs[f.a + 1], p2 |-> vs[f.b + 1], p3 |-> vs[f.c + 1]]]
    ELSE [panic |-> TRUE, triangle |-> "none"]

\* face.triangle(&data): clones of data[a], data[b], data[c] and the
\* indices (a, b, c); indexing past the end of data panics
Face_triangle(f, vs) ==
    IF f.a < Len(vs) /\ f.b < Len(vs) /\ f.c < Len(vs)
    THEN [panic |-> FALSE,
          triangle |-> [indices |-> <<f.a, f.b, f.c>>,
                        p1 |-> vs[f.a + 1], p2 |-> vs[f.b + 1], p3 |-> vs[f.c + 1]]]
    ELSE [panic |-> TRUE, triangle |-> "none"]

\* geometry.get(i): self.faces[i].triangle(&self.vertices)
Geometry_get(g, i) ==
    IF i < Len(g.faces)
    THEN Face_triangle(g.faces[i + 1], g.vertices)
    ELSE [panic |-> TRUE, triangle |-> "none"]

\* impl Transform for Triangle: p1, p2 and p3, each once
Triangle_transform(t, matrix) ==
    [t EXCEPT !.p1 = Vector_transform(t.p1, matrix),
              !.p2 = Vector_transform(t.p2, matrix),
              !.p3 = Vector_transform(t.p3, matrix)]

\* triangle.as_face()
Triangle_as_face(t) ==
    [a |-> t.indices[1], b |-> t.indices[2], c |-> t.indices[3]]

\* faces over the first, second and last vertex and the first index past
\* the longest list
TriFaces ==
    {Face_new(a, b, c) : a \in {1, 2}, b \in {2, MaxLen}, c \in {MaxLen, MaxLen + 1}}

TriInit ==
    /\ vertices \in {CubeVertices(n) : n \in 2..MaxLen}
    /\ faces \in SeqsUpTo(TriFaces, MaxFaces)
    /\ item = "none"
    /\ pc = "raw"
    /\ last = "none"
    /\ prev = Geometry_new(vertices, faces)
    /\ applies = 0
    /\ got \in 0..MaxFaces
    /\ trig = "none" /\ trig0 = "none" /\ asface = "none"
    /\ tpc = "start"
    /\ SelIdle /\ FaceIdle /\ AttrIdle /\ AltIdle /\ MatIdle /\ VecIdle
    /\ ChainIdle /\ DocIdle

triOthers ==
    <<selVars, faceVars, attrVars, altVars, matVars, vecVars, chainVars, docVars>>

\* let t = geometry.get(i)
Get ==
    /\ tpc = "start"
    /\ LET r == Geometry_get(Geometry_new(vertices, faces), got)
       IN  IF r.panic
           THEN /\ tpc' = "panicked"
                /\ UNCHANGED <<trig, trig0>>
           ELSE /\ tpc' = "got"
                /\ trig' = r.triangle
                /\ trig0' = r.triangle
    /\ last' = "get"
    /\ prev' = Geometry_new(vertices, faces)
    /\ UNCHANGED <<vertices, faces, item, pc, applies, got, asface, triOthers>>

\* t.transform(&matrix)
TransformTriangle ==
    /\ tpc = "got"
    /\ \E matrix \in GeoMatrices : trig' = Triangle_transform(trig, matrix)
    /\ tpc' = "moved"
    /\ UNCHANGED <<geoVars, trig0, got, asface, triOthers>>

\* let f = t.as_face()
AsFace ==
    /\ tpc \in {"got", "moved"}
    /\ asface' = Triangle_as_face(trig)
    /\ tpc' = "face"
    /\ UNCHANGED <<geoVars, trig, trig0, got, triOthers>>

TriNext == Get \/ TransformTriangle \/ AsFace \/ Transform

TriSpec == TriInit /\ [][TriNext]_vars

\* the triangle is held
Held == tpc \in {"got", "moved", "face"}

\* the vertex list the triangle was taken from: the geometry's list, or the
\* list before the geometry was transformed after the triangle was taken
SourceVertices == IF last = "transform" THEN prev.vertices ELSE vertices

\* C26: a Triangle from Face.triangle / Geometry.get is an independent
\* copy: its points are the values the face's vertices had when it was
\* taken, transforming it leaves the source vertex list unchanged, a later
\* change of the geometry's vertices leaves p1, p2, p3 unchanged, and its
\* indices are the face's (a, b, c), so that as_face gives the face back.
TriangleIsCopy ==
    /\ Held =>
           LET f == faces[got + 1]
           IN  /\ trig0.indices = <<f.a, f.b, f.c>>
               /\ trig.indices = trig0.indices
               /\ trig0.p1 = SourceVertices[f.a + 1]
               /\ trig0.p2 = SourceVertices[f.b + 1]
               /\ trig0.p3 = SourceVertices[f.c + 1]
    /\ Held /\ last = "get" => vertices = prev.vertices
    /\ Held /\ last = "transform" =>
           /\ vertices = Vec_transform(prev.vertices, arg)
           /\ trig \in {trig0} \cup {Triangle_transform(trig0, m) : m \in GeoMatrices}
    /\ tpc = "got" => trig = trig0
    /\ tpc = "moved" => \E m \in GeoMatrices : trig = Triangle_transform(trig0, m)
    /\ tpc = "face" => asface = faces[got + 1]

\* the triangle was transformed and the list it came from was not; then
\* the geometry was transformed and the triangle was not; the face comes back
TriangleIsCopyWitness ==
    /\ tpc = "face"
    /\ last = "transform"
    /\ got = 1
    /\ faces[2] = Face_new(2, MaxLen, MaxLen)
    /\ vertices # prev.vertices
    /\ trig # trig0
    /\ trig0.p1 = prev.vertices[2]
    /\ trig.p1 # vertices[2]
    /\ trig.p1 = Vector_transform(prev.vertices[2], Matrix_scale(2, 0, -1))
    /\ arg = Matrix_translate(1, 2, 3)
    /\ asface = faces[2]

-----------------------------------------------------------------------------
(* DocSpec: a geometry written as text, and text read as a geometry.  A    *)
(* string is the sequence of its characters.  The characters are the two   *)
(* tags, the space, the digits, the minus sign, "#", "x" and the newline:  *)
(* the numbers written are whole, so that the fraction point, the          *)
(* exponent, "inf" and "nan" of the f64 grammar do not occur.              *)

\* the tag of a vertex line
VERTEX_TAG == "v"

Digits == {"0", "1", "2", "3", "4", "5", "6", "7", "8", "9"}

DigitValue(c) ==
    CASE c = "0" -> 0 [] c = "1" -> 1 [] c = "2" -> 2 [] c = "3" -> 3 [] c = "4" -> 4
      [] c = "5" -> 5 [] c = "6" -> 6 [] c = "7" -> 7 [] c = "8" -> 8 [] c = "9" -> 9

\* the number a string of digits writes
RECURSIVE Value(_)
Value(tok) ==
    IF tok = <<>> THEN 0
    ELSE Value(SubSeq(tok, 1, Len(tok) - 1)) * 10 + DigitValue(tok[Len(tok)])

AllDigits(tok) == tok # <<>> /\ \A i \in 1..Len(tok) : tok[i] \in Digits

\* str::parse::<usize>: an optional "+" and digits, the value within usize
parse_usize(tok) ==
    LET body == IF tok # <<>> /\ Head(tok) = "+" THEN Tail(tok) ELSE tok
    IN  IF AllDigits(body) /\ Value(body) <= UsizeMax
        THEN [ok |-> TRUE, value |-> Value(body)]
        ELSE [ok |-> FALSE]

\* str::parse::<f64> on whole numbers: an optional sign and digits
parse_f64(tok) ==
    LET signed == tok # <<>> /\ Head(tok) \in {"+", "-"}
        body == IF signed THEN Tail(tok) ELSE tok
    IN  IF AllDigits(body)
        THEN [ok |-> TRUE,
              value |-> IF signed /\ Head(tok) = "-" THEN 0 - Value(body)
                        ELSE Value(body)]
        ELSE [ok |-> FALSE]

\* "{}" of an f64 holding a whole number
Display_f64(x) ==
    IF x < 0 THEN <<"-">> \o Display_usize(0 - x) ELSE Display_usize(x)

\* str::lines: the pieces between newlines; a final newline ends the last
\* line and starts no further one
RECURSIVE lines_from(_, _, _, _)
lines_from(s, k, cur, acc) ==
    IF k > Len(s) THEN (IF cur = <<>> THEN acc ELSE Append(acc, cur))
    ELSE IF s[k] = "\n" THEN lines_from(s, k + 1, <<>>, Append(acc, cur))
    ELSE lines_from(s, k + 1, Append(cur, s[k]), acc)

str_lines(s) == lines_from(s, 1, <<>>, <<>>)

\* str::trim_start_matches(set): the string without its longest prefix of
\* characters of the set
RECURSIVE trim_start_matches(_, _)
trim_start_matches(s, set) ==
    IF s # <<>> /\ Head(s) \in set THEN trim_start_matches(Tail(s), set) ELSE s

\* str::split_whitespace: the maximal runs of characters that are not
\* whitespace
RECURSIVE split_from(_, _, _, _)
split_from(s, k, cur, acc) ==
    IF k > Len(s) THEN (IF cur = <<>> THEN acc ELSE Append(acc, cur))
    ELSE IF s[k] \in {" ", "\n"}
         THEN split_from(s, k + 1, <<>>, IF cur = <<>> THEN acc ELSE Append(acc, cur))
    ELSE split_from(s, k + 1, Append(cur, s[k]), acc)

split_whitespace(s) == split_from(s, 1, <<>>, <<>>)

\* Iterator::take(n)
take(seq, n) == SubSeq(seq, 1, Min(n, Len(seq)))

\* str::parse::<T>, T being f64 or usize
str_parse(T, tok) == IF T = "f64" THEN parse_f64(tok) ELSE parse_usize(tok)

\* utilities::extract::<T>(tag, line): the leading tags and spaces trimmed, the
\* first three tokens parsed; an error when one does not parse or there are
\* fewer than three
extract(tag, line, T) ==
    LET parse(tok) == str_parse(T, tok)
        toks == take(split_whitespace(trim_start_matches(line, {tag, " "})), 3)
    IN  IF \E i \in 1..Len(toks) : ~parse(toks[i]).ok THEN [ok |-> FALSE]
        ELSE IF Len(toks) # 3 THEN [ok |-> FALSE]
        ELSE [ok |-> TRUE,
              value |-> <<parse(toks[1]).value, parse(toks[2]).value,
                          parse(toks[3]).value>>]

\* impl TryFrom<&str> for Vector
Vector_try_from(line) ==
    LET r == extract(VERTEX_TAG, line, "f64")
    IN  IF r.ok
        THEN [ok |-> TRUE, value |-> Vector_new(r.value[1], r.value[2], r.value[3])]
        ELSE [ok |-> FALSE]

\* impl TryFrom<&str> for Face
Face_try_from(line) ==
    LET r == extract(FACE_TAG, line, "usize")
    IN  IF r.ok
        THEN [ok |-> TRUE, value |-> Face_new(r.value[1], r.value[2], r.value[3])]
        ELSE [ok |-> FALSE]

\* the loop of Geometry::try_from over the lines k..: a line is tried as a
\* vertex, then as a face, and is passed over when it is neither
RECURSIVE try_from_lines(_, _, _)
try_from_lines(ls, k, g) ==
    IF k > Len(ls) THEN g
    ELSE IF Vector_try_from(ls[k]).ok
         THEN try_from_lines(ls, k + 1,
                  [g EXCEPT !.vertices = Append(@, Vector_try_from(ls[k]).value)])
    ELSE IF Face_try_from(ls[k]).ok
         THEN try_from_lines(ls, k + 1,
                  [g EXCEPT !.faces = Append(@, Face_try_from(ls[k]).value)])
    ELSE try_from_lines(ls, k + 1, g)

\* impl TryFrom<String> for Geometry
Geometry_try_from(s) ==
    Geometry_validated(try_from_lines(str_lines(s), 1, Geometry_new(<<>>, <<>>)))

\* impl From<&Vector> for String: format!("{} {} {} {}", VERTEX_TAG, x, y, z)
String_from_Vector(v) ==
    <<VERTEX_TAG>> \o <<" ">> \o Display_f64(v.x) \o <<" ">> \o Display_f64(v.y)
        \o <<" ">> \o Display_f64(v.z)

\* Itertools::intersperse(strings, sep).collect::<String>()
RECURSIVE intersperse(_, _)
intersperse(strs, sep) ==
    IF strs = <<>> THEN <<>>
    ELSE IF Len(strs) = 1 THEN strs[1]
    ELSE strs[1] \o sep \o intersperse(Tail(strs), sep)

\* impl From<Geometry> for String
String_from_Geometry(g) ==
    intersperse([k \in 1..Len(g.vertices) |-> String_from_Vector(g.vertices[k])],
                <<"\n">>)
        \o <<"\n">>
        \o intersperse([k \in 1..Len(g.faces) |-> String_from_Face(g.faces[k])],
                       <<"\n">>)

\* the most lines a text read has
MaxLines == 3

\* lines a text read is made of: vertex lines, face lines (the last out of
\* range for fewer than three vertices), three numbers without a tag, a
\* vertex line with a fourth number, a comment, the empty line, a vertex
\* line one number short and a face line with a letter for a number
DocLines ==
    {<<"v", " ", "1", " ", "1", " ", "1">>,
     <<"v", " ", "-", "1", " ", "2", " ", "0">>,
     <<"f", " ", "1", " ", "2", " ", "2">>,
     <<"f", " ", "3", " ", "1", " ", "1">>,
     <<"1", " ", "2", " ", "3">>,
     <<"v", " ", "1", " ", "2", " ", "3", " ", "4">>,
     <<"#", " ", "x">>,
     <<>>,
     <<"v", " ", "1", " ", "2">>,
     <<"f", " ", "1", " ", "x", " ", "2">>}

\* the lines, each ended by a newline
RECURSIVE Unlines(_)
Unlines(ls) ==
    IF ls = <<>> THEN <<>> ELSE ls[1] \o <<"\n">> \o Unlines(Tail(ls))

Texts == {Unlines(ls) : ls \in SeqsUpTo(DocLines, MaxLines)}

\* the vertices and faces of the geometries written
DocVertices == {Vector_new(1, 1, 1), Vector_new(-1, 2, 0), Vector_new(10, -12, 3)}

DocFaces == {Face_new(1, 1, 1), Face_new(1, 2, 2), Face_new(2, 1, MaxLen),
             Face_new(1, 2, MaxLen + 1)}

\* either a geometry to be written, or a text to be read
DocInit ==
    /\ \/ /\ vertices \in SeqsUpTo(DocVertices, MaxLen)
          /\ faces \in SeqsUpTo(DocFaces, MaxFaces)
          /\ pc = "raw"
          /\ doc = <<>>
          /\ dpc = "start"
       \/ /\ vertices = <<>>
          /\ faces = <<>>
          /\ pc = "idle"
          /\ doc \in Texts
          /\ dpc = "text"
    /\ item = "none"
    /\ last = "none"
    /\ prev = Geometry_new(vertices, faces)
    /\ applies = 0
    /\ parsed = "none"
    /\ SelIdle /\ FaceIdle /\ AttrIdle /\ AltIdle /\ MatIdle /\ VecIdle
    /\ ChainIdle /\ TriIdle

docOthers ==
    <<selVars, faceVars, attrVars, altVars, matVars, vecVars, chainVars, triVars>>

\* let s = String::from(geometry), the geometry validated
Serialize ==
    /\ pc = "valid"
    /\ dpc = "start"
    /\ doc' = String_from_Geometry(Geometry_new(vertices, faces))
    /\ dpc' = "written"
    /\ UNCHANGED <<geoVars, parsed, docOthers>>

\* Geometry::try_from(s)
Parse ==
    /\ dpc \in {"written", "text"}
    /\ parsed' = Geometry_try_from(doc)
    /\ dpc' = "parsed"
    /\ UNCHANGED <<geoVars, doc, docOthers>>

DocNext == Validated \/ Serialize \/ Parse

DocSpec == DocInit /\ [][DocNext]_vars

\* line k of the text written is the line of vertex k, or of the face
\* after the vertices, with its indices counted from 1
WrittenLine(k) ==
    IF k <= Len(vertices)
    THEN <<"v", " ">> \o Display_f64(vertices[k].x) \o <<" ">>
             \o Display_f64(vertices[k].y) \o <<" ">> \o Display_f64(vertices[k].z)
    ELSE LET f == faces[k - Len(vertices)]
         IN  <<"f", " ">> \o Display_usize(f.a + 1) \o <<" ">>
                 \o Display_usize(f.b + 1) \o <<" ">> \o Display_usize(f.c + 1)

\* C22: a validated Geometry written as text and read back has the same
\* vertices in the same order and the same faces, by their 0-based
\* indices, in the same order; the text has the vertex lines first and the
\* face lines after them, the face indices counted from 1.
TextRoundTrip ==
    /\ pc = "valid" /\ dpc \in {"written", "parsed"} =>
           LET ls == str_lines(doc)
           IN  IF vertices = <<>>
               THEN doc = <<"\n">>
               ELSE /\ Len(ls) = Len(vertices) + Len(faces)
                    /\ \A k \in 1..Len(ls) : ls[k] = WrittenLine(k)
    /\ pc = "valid" /\ dpc = "parsed" =>
           /\ parsed.ok
           /\ parsed.geometry.vertices = vertices
           /\ parsed.geometry.faces = faces

TextRoundTripWitness ==
    /\ pc = "valid"
    /\ dpc = "parsed"
    /\ vertices = <<Vector_new(10, -12, 3), Vector_new(-1, 2, 0)>>
    /\ faces = <<Face_new(1, 2, 2), Face_new(1, 1, 1)>>
    /\ doc = <<"v", " ", "1", "0", " ", "-", "1", "2", " ", "3", "\n",
               "v", " ", "-", "1", " ", "2", " ", "0", "\n",
               "f", " ", "1", " ", "2", " ", "2", "\n",
               "f", " ", "1", " ", "1", " ", "1">>
    /\ parsed.ok
    /\ parsed.geometry = Geometry_new(vertices, faces)

\* a vertex line: the vertex tag, then three numbers (and whatever follows)
IsVertexLine(line) ==
    LET toks == split_whitespace(line)
    IN  /\ Len(toks) >= 4
        /\ toks[1] = <<VERTEX_TAG>>
        /\ \A i \in 2..4 : parse_f64(toks[i]).ok

\* a face line: the face tag, then three integers (and whatever follows)
IsFaceLine(line) ==
    LET toks == split_whitespace(line)
    IN  /\ Len(toks) >= 4
        /\ toks[1] = <<FACE_TAG>>
        /\ \A i \in 2..4 : parse_usize(toks[i]).ok

\* the vertices of the vertex lines of ls, in their order
RECURSIVE RecognisedVertices(_)
RecognisedVertices(ls) ==
    IF ls = <<>> THEN <<>>
    ELSE LET toks == split_whitespace(ls[1])
         IN  (IF IsVertexLine(ls[1])
              THEN <<Vector_new(parse_f64(toks[2]).value, parse_f64(toks[3]).value,
                                parse_f64(toks[4]).value)>>
              ELSE <<>>) \o RecognisedVertices(Tail(ls))

\* the faces of the face lines of ls, in their order
RECURSIVE RecognisedFaces(_)
RecognisedFaces(ls) ==
    IF ls = <<>> THEN <<>>
    ELSE LET toks == split_whitespace(ls[1])
         IN  (IF IsFaceLine(ls[1])
              THEN <<Face_new(parse_usize(toks[2]).value, parse_usize(toks[3]).value,
                              parse_usize(toks[4]).value)>>
              ELSE <<>>) \o RecognisedFaces(Tail(ls))

\* C23: Geometry::try_from(text) does not fail for a line that is neither a
\* vertex line (tag and three floats) nor a face line (tag and three 1-based
\* integers): such a line adds neither a vertex nor a face, the result holds
\* exactly the vertex lines and the face lines in their order, and the only
\* failure is a face index out of range at the final validation.
OnlyTaggedLinesCount ==
    dpc = "parsed" =>
        LET ls == str_lines(doc)
            g  == Geometry_new(RecognisedVertices(ls), RecognisedFaces(ls))
        IN  /\ parsed.ok <=> \A k \in 1..Len(g.faces) : Face_is_valid(g.faces[k], g.vertices)
            /\ parsed.ok => parsed.geometry = g

=============================================================================
